---- MODULE Spec2Model ----
(***************************************************************************)
(* Model of the hwlocality Bitmap API (src/src/bitmaps/mod.rs).            *)
(*                                                                         *)
(* A Bitmap is a handle on an hwloc bitmap: a set of indices that may hold *)
(* every index from some point onward.  The Rust layer converts between    *)
(* BitmapIndex / Option values and the C ints of the hwloc entry points,   *)
(* asserts on the returned codes and composes the entry points.  The hwloc *)
(* entry points (crate::ffi) are modelled by their documented effect on    *)
(* the set; every C int keeps the width of c_int, scaled down with MAX.    *)
(***************************************************************************)
EXTENDS Integers, Sequences, FiniteSets, TLC

\* ---------------------------------------------------------------------
\* Index domain and C integers
\* ---------------------------------------------------------------------

\* BitmapIndex::MAX (= c_int::MAX), scaled down
MAX == 3

\* BitmapIndex::MIN
MIN == 0

\* The valid indices [0, MAX]
BitmapIndex == MIN..MAX

\* c_int::MIN for a c_int whose maximum is MAX
C_INT_MIN == -(MAX + 1)

\* Two's complement wrap-around of an integer into the width of c_int
wrap_c_int(x) == ((x - C_INT_MIN) % (2 * (MAX + 1))) + C_INT_MIN

\* Option / panic outcomes of the Rust layer
Some(v) == [tag |-> "Some", val |-> v]
None == [tag |-> "None", val |-> 0]
Panic == [tag |-> "Panic", val |-> 0]

\* BitmapIndex::try_from_c_int(x).ok()
try_from_c_int(x) == IF x \in BitmapIndex THEN Some(x) ELSE None

\* idx.try_into().ok() for the index types handed to the API
try_into(idx) == IF idx \in BitmapIndex THEN Some(idx) ELSE None

\* BitmapIndex::checked_succ
checked_succ(idx) == IF idx < MAX THEN Some(idx + 1) ELSE None

\* BitmapIndex::checked_pred
checked_pred(idx) == IF idx > MIN THEN Some(idx - 1) ELSE None

\* An operation returned, leaving the bitmap v behind
Returned(v) == [tag |-> "Returned", val |-> v]

\* std::ops::Bound
Unbounded == [kind |-> "Unbounded", idx |-> 0]
Included(i) == [kind |-> "Included", idx |-> i]
Excluded(i) == [kind |-> "Excluded", idx |-> i]

\* index.map(BitmapIndex::into_c_int).unwrap_or(-1)
into_c_int_or(index) == IF index.tag = "Some" THEN index.val ELSE -1

SetMin(S) == CHOOSE m \in S : \A n \in S : m <= n
SetMax(S) == CHOOSE m \in S : \A n \in S : m >= n

\* ---------------------------------------------------------------------
\* hwloc bitmaps (crate::ffi entry points)
\*   ulongs   : the indices of [0, MAX] that are set
\*   infinite : every index above MAX is set
\* ---------------------------------------------------------------------

AllBitmaps == [ulongs : SUBSET BitmapIndex, infinite : BOOLEAN]

hwloc_bitmap_alloc == [ulongs |-> {}, infinite |-> FALSE]

hwloc_bitmap_alloc_full == [ulongs |-> BitmapIndex, infinite |-> TRUE]

hwloc_bitmap_zero(bm) == [ulongs |-> {}, infinite |-> FALSE]

hwloc_bitmap_fill(bm) == [ulongs |-> BitmapIndex, infinite |-> TRUE]

hwloc_bitmap_set(bm, idx) == [bm EXCEPT !.ulongs = @ \cup {idx}]

hwloc_bitmap_clr(bm, idx) == [bm EXCEPT !.ulongs = @ \ {idx}]

hwloc_bitmap_isset(bm, idx) == IF idx \in bm.ulongs THEN 1 ELSE 0

hwloc_bitmap_iszero(bm) == IF bm.ulongs = {} /\ ~bm.infinite THEN 1 ELSE 0

hwloc_bitmap_isfull(bm) == IF bm.ulongs = BitmapIndex /\ bm.infinite THEN 1 ELSE 0

\* Number of set indices as a C int, -1 when infinite
hwloc_bitmap_weight(bm) ==
    IF bm.infinite THEN -1 ELSE wrap_c_int(Cardinality(bm.ulongs))

\* First set index after prev as a C int, -1 when there is none
hwloc_bitmap_next(bm, prev) ==
    LET after == {i \in bm.ulongs : i > prev}
    IN  IF after # {} THEN SetMin(after)
        ELSE IF bm.infinite THEN wrap_c_int(MAX + 1)
        ELSE -1

\* First unset index after prev as a C int, -1 when there is none
hwloc_bitmap_next_unset(bm, prev) ==
    LET after == {i \in BitmapIndex \ bm.ulongs : i > prev}
    IN  IF after # {} THEN SetMin(after)
        ELSE IF ~bm.infinite THEN wrap_c_int(MAX + 1)
        ELSE -1

hwloc_bitmap_not(bm) ==
    [ulongs |-> BitmapIndex \ bm.ulongs, infinite |-> ~bm.infinite]

hwloc_bitmap_and(x, y) ==
    [ulongs |-> x.ulongs \cap y.ulongs, infinite |-> x.infinite /\ y.infinite]

hwloc_bitmap_or(x, y) ==
    [ulongs |-> x.ulongs \cup y.ulongs, infinite |-> x.infinite \/ y.infinite]

hwloc_bitmap_xor(x, y) ==
    [ulongs |-> (x.ulongs \ y.ulongs) \cup (y.ulongs \ x.ulongs),
     infinite |-> x.infinite # y.infinite]

hwloc_bitmap_andnot(x, y) ==
    [ulongs |-> x.ulongs \ y.ulongs, infinite |-> x.infinite /\ ~y.infinite]

hwloc_bitmap_isequal(x, y) ==
    IF x.ulongs = y.ulongs /\ x.infinite = y.infinite THEN 1 ELSE 0

hwloc_bitmap_intersects(x, y) ==
    IF x.ulongs \cap y.ulongs # {} \/ (x.infinite /\ y.infinite) THEN 1 ELSE 0

\* -1, 0 or 1: the operand holding the highest index at which the two
\* differ is the greater one; all indices of an infinite tail lie above
\* those of [0, MAX]
hwloc_bitmap_compare(x, y) ==
    LET differ == (x.ulongs \ y.ulongs) \cup (y.ulongs \ x.ulongs)
    IN  IF x.infinite # y.infinite THEN (IF x.infinite THEN 1 ELSE -1)
        ELSE IF differ = {} THEN 0
        ELSE IF SetMax(differ) \in x.ulongs THEN 1
        ELSE -1

\* Truth that sub_set is included in super_set
hwloc_bitmap_isincluded(sub_set, super_set) ==
    IF /\ sub_set.ulongs \subseteq super_set.ulongs
       /\ (sub_set.infinite => super_set.infinite)
    THEN 1 ELSE 0

hwloc_bitmap_only(bm, idx) == [ulongs |-> {idx}, infinite |-> FALSE]

hwloc_bitmap_allbut(bm, idx) ==
    [ulongs |-> BitmapIndex \ {idx}, infinite |-> TRUE]

\* Keeps the lowest set index only.  When every set index lies above MAX
\* the one kept is MAX + 1, the lowest of the infinite tail: the only
\* value with a single index above MAX set, held in ulongs.  An empty
\* bitmap stays empty.
hwloc_bitmap_singlify(bm) ==
    IF bm.ulongs # {} THEN [ulongs |-> {SetMin(bm.ulongs)}, infinite |-> FALSE]
    ELSE IF bm.infinite THEN [ulongs |-> {MAX + 1}, infinite |-> FALSE]
    ELSE bm

\* First set index as a C int, -1 when there is none
hwloc_bitmap_first(bm) ==
    IF bm.ulongs # {} THEN wrap_c_int(SetMin(bm.ulongs))
    ELSE IF bm.infinite THEN wrap_c_int(MAX + 1)
    ELSE -1

\* First unset index as a C int, -1 when there is none
hwloc_bitmap_first_unset(bm) ==
    LET unset_idx == BitmapIndex \ bm.ulongs
    IN  IF unset_idx # {} THEN SetMin(unset_idx)
        ELSE IF ~bm.infinite THEN wrap_c_int(MAX + 1)
        ELSE -1

\* Sets the indices begin..=end; end = -1 stands for no end.  Nothing is
\* changed when end lies below begin.
hwloc_bitmap_set_range(bm, begin, end) ==
    IF end = -1
    THEN [ulongs |-> bm.ulongs \cup {i \in BitmapIndex : i >= begin},
          infinite |-> TRUE]
    ELSE IF end < begin THEN bm
    ELSE [bm EXCEPT !.ulongs = @ \cup (begin..end)]

\* Clears the indices begin..=end; end = -1 stands for no end.  Nothing is
\* changed when end lies below begin.
hwloc_bitmap_clr_range(bm, begin, end) ==
    IF end = -1
    THEN [ulongs |-> bm.ulongs \ {i \in BitmapIndex : i >= begin},
          infinite |-> FALSE]
    ELSE IF end < begin THEN bm
    ELSE [bm EXCEPT !.ulongs = @ \ (begin..end)]

\* Index i is set in bm, the indices above MAX included
hwloc_bitmap_member(bm, i) == i \in bm.ulongs \/ (i > MAX /\ bm.infinite)

\* The list text of the set indices above prev: one token per run of
\* consecutive set indices, "N" for a run of one index, "N-M" for a longer
\* run, "N-" for the run that never ends, each token but the first one
\* written after a comma
RECURSIVE hwloc_bitmap_list_from(_, _, _)
hwloc_bitmap_list_from(bm, prev, needcomma) ==
    LET set_after == {i \in (prev + 1)..(MAX + 1) : hwloc_bitmap_member(bm, i)}
        begin == SetMin(set_after)
        unset_after ==
            {i \in (begin + 1)..(MAX + 2) : ~hwloc_bitmap_member(bm, i)}
        end == SetMin(unset_after)
        comma == IF needcomma THEN "," ELSE ""
    IN  IF set_after = {} THEN ""
        ELSE IF unset_after = {} THEN comma \o ToString(begin) \o "-"
        ELSE IF end = begin + 1
        THEN comma \o ToString(begin) \o hwloc_bitmap_list_from(bm, end, TRUE)
        ELSE comma \o ToString(begin) \o "-" \o ToString(end - 1)
                   \o hwloc_bitmap_list_from(bm, end, TRUE)

\* The text hwloc_bitmap_list_snprintf writes into the buffer
hwloc_bitmap_list_snprintf(bm) == hwloc_bitmap_list_from(bm, -1, FALSE)

\* ffi::write_snprintf: what the closure wrote, handed to the formatter
write_snprintf(text) == text

\* errors::call_hwloc_bool: a C int 0/1 as a bool
call_hwloc_bool(result) == result # 0

\* ---------------------------------------------------------------------
\* impl Bitmap
\* ---------------------------------------------------------------------

new == hwloc_bitmap_alloc

full == hwloc_bitmap_alloc_full

clear(self) == hwloc_bitmap_zero(self)

fill(self) == hwloc_bitmap_fill(self)

\* set() once idx.try_into() succeeded
set(self, idx) == hwloc_bitmap_set(self, idx)

\* unset() once idx.try_into() succeeded
unset(self, idx) == hwloc_bitmap_clr(self, idx)

\* is_set() once idx.try_into() succeeded
is_set(self, idx) == call_hwloc_bool(hwloc_bitmap_isset(self, idx))

is_empty(self) == call_hwloc_bool(hwloc_bitmap_iszero(self))

is_full(self) == call_hwloc_bool(hwloc_bitmap_isfull(self))

\* weight(): assert!(result >= -1), then usize::try_from(result).ok()
weight(self) ==
    LET result == hwloc_bitmap_weight(self)
    IN  IF result < -1 THEN Panic
        ELSE IF result >= 0 THEN Some(result)
        ELSE None

\* hwloc_range's helper closure: Some(<<start, end>>), None when an
\* excluded bound cannot be shifted, Panic when a bound is not an index.
\* The start bound is translated first and its ? returns before the end
\* bound is looked at.
hwloc_range_helper(range) ==
    LET start_idx == try_into(range.start.idx)
        start == IF range.start.kind = "Unbounded" THEN Some(MIN)
                 ELSE IF start_idx = None THEN Panic
                 ELSE IF range.start.kind = "Included" THEN start_idx
                 ELSE checked_succ(start_idx.val)
        end_idx == try_into(range.end.idx)
        end == IF range.end.kind = "Unbounded" THEN Some(-1)
               ELSE IF end_idx = None THEN Panic
               ELSE IF range.end.kind = "Included" THEN end_idx
               ELSE checked_pred(end_idx.val)
    IN  IF start.tag # "Some" THEN start
        ELSE IF end.tag # "Some" THEN end
        ELSE Some(<<start.val, end.val>>)

\* hwloc_range with helper().unwrap_or((0, -1)), the range of everything
hwloc_range_or_everything(range) ==
    LET helper == hwloc_range_helper(range)
    IN  IF helper = None THEN Some(<<0, -1>>) ELSE helper

\* Bitmap::hwloc_range: helper().unwrap_or((1, 0)), or the panic
hwloc_range(range) ==
    LET helper == hwloc_range_helper(range)
    IN  IF helper = None THEN Some(<<1, 0>>) ELSE helper

\* Bitmap::set_range: Returned(self afterwards), or the panic
set_range(self, range) ==
    IF range.start = Unbounded /\ range.end = Unbounded
    THEN Returned(fill(self))
    ELSE LET r == hwloc_range(range)
         IN  IF r.tag = "Panic" THEN Panic
             ELSE Returned(hwloc_bitmap_set_range(self, r.val[1], r.val[2]))

\* unset_range() running the body of set_range()
unset_range_as_set_range(self, range) == set_range(self, range)

\* Bitmap::unset_range: Returned(self afterwards), or the panic
unset_range(self, range) ==
    IF range.start = Unbounded /\ range.end = Unbounded
    THEN Returned(clear(self))
    ELSE LET r == hwloc_range(range)
         IN  IF r.tag = "Panic" THEN Panic
             ELSE Returned(hwloc_bitmap_clr_range(self, r.val[1], r.val[2]))

\* Bitmap::from_range: Returned(the new bitmap), or the panic
from_range(range) == set_range(new, range)

\* set_only() once idx.try_into() succeeded
set_only(self, idx) == hwloc_bitmap_only(self, idx)

\* set_all_but() once idx.try_into() succeeded
set_all_but(self, idx) == hwloc_bitmap_allbut(self, idx)

\* singlify() with the hwloc call left out
singlify_uncalled(self) == self

\* Bitmap::singlify
singlify(self) == hwloc_bitmap_singlify(self)

\* Last set index as a C int, -1 when there is none or no finite one
hwloc_bitmap_last(bm) ==
    IF bm.infinite THEN -1
    ELSE IF bm.ulongs # {} THEN wrap_c_int(SetMax(bm.ulongs))
    ELSE -1

\* Last unset index as a C int, -1 when there is none or no finite one
hwloc_bitmap_last_unset(bm) ==
    LET unset_idx == BitmapIndex \ bm.ulongs
    IN  IF ~bm.infinite THEN -1
        ELSE IF unset_idx # {} THEN SetMax(unset_idx)
        ELSE -1

\* last_set(): assert!(result >= -1), then try_from_c_int(result).ok()
last_set(self) ==
    LET result == hwloc_bitmap_last(self)
    IN  IF result < -1 THEN Panic ELSE try_from_c_int(result)

\* last_unset(): assert!(result >= -1), then try_from_c_int(result).ok()
last_unset(self) ==
    LET result == hwloc_bitmap_last_unset(self)
    IN  IF result < -1 THEN Panic ELSE try_from_c_int(result)

\* first_set(): assert!(result >= -1), then try_from_c_int(result).ok()
first_set(self) ==
    LET result == hwloc_bitmap_first(self)
    IN  IF result < -1 THEN Panic ELSE try_from_c_int(result)

\* first_unset(): assert!(result >= -1), then try_from_c_int(result).ok()
first_unset(self) ==
    LET result == hwloc_bitmap_first_unset(self)
    IN  IF result < -1 THEN Panic ELSE try_from_c_int(result)

\* call_hwloc_bool applied to hwloc_bitmap_isincluded
includes_swapped(self, inner) ==
    call_hwloc_bool(hwloc_bitmap_isincluded(self, inner))

\* hwloc_bitmap_isequal called in place of hwloc_bitmap_isincluded
includes_as_equal(self, inner) ==
    call_hwloc_bool(hwloc_bitmap_isequal(inner, self))

\* Bitmap::invert
invert(self) == hwloc_bitmap_not(self)

\* Bitmap::intersects
intersects(self, rhs) == call_hwloc_bool(hwloc_bitmap_intersects(self, rhs))

\* Bitmap::includes
includes(self, inner) == call_hwloc_bool(hwloc_bitmap_isincluded(inner, self))

\* Not for &Bitmap with the result never written
not_unwritten(self) == new

\* Not for &Bitmap
not(self) == hwloc_bitmap_not(self)

\* Not for Bitmap
not_owned(self) == invert(self)

\* BitAnd for &Bitmap
bitand(self, rhs) == hwloc_bitmap_and(self, rhs)

\* BitAndAssign for Bitmap
bitand_assign(self, rhs) == hwloc_bitmap_and(self, rhs)

\* hwloc_bitmap_xor called in place of hwloc_bitmap_or
bitor_as_xor(self, rhs) == hwloc_bitmap_xor(self, rhs)

\* BitOr for &Bitmap
bitor(self, rhs) == hwloc_bitmap_or(self, rhs)

\* BitOrAssign for Bitmap
bitor_assign_as_and(self, rhs) == hwloc_bitmap_and(self, rhs)

bitor_assign(self, rhs) == hwloc_bitmap_or(self, rhs)

\* hwloc_bitmap_or called in place of hwloc_bitmap_xor
bitxor_as_or(self, rhs) == hwloc_bitmap_or(self, rhs)

\* BitXor for &Bitmap
bitxor(self, rhs) == hwloc_bitmap_xor(self, rhs)

\* BitXorAssign for Bitmap
bitxor_assign(self, rhs) == hwloc_bitmap_xor(self, rhs)

\* hwloc_bitmap_andnot with its two operands exchanged
sub_swapped(self, rhs) == hwloc_bitmap_andnot(rhs, self)

\* Sub for &Bitmap
sub(self, rhs) == hwloc_bitmap_andnot(self, rhs)

\* SubAssign for Bitmap
sub_assign(self, rhs) == hwloc_bitmap_andnot(self, rhs)

\* Sub for Bitmap
sub_owned(self, rhs) == sub_assign(self, rhs)

\* hwloc_bitmap_isincluded called in place of hwloc_bitmap_isequal
eq_as_included(self, other) ==
    call_hwloc_bool(hwloc_bitmap_isincluded(self, other))

\* PartialEq for Bitmap
eq(self, other) == call_hwloc_bool(hwloc_bitmap_isequal(self, other))

\* Display for Bitmap with nothing handed to the formatter
fmt_unwritten(self) == ""

\* Display for Bitmap
fmt(self) == write_snprintf(hwloc_bitmap_list_snprintf(self))

\* Debug for Bitmap
debug_fmt(self) == fmt(self)

\* core::cmp::Ordering
Less == [tag |-> "Less", val |-> -1]
Equal == [tag |-> "Equal", val |-> 0]
Greater == [tag |-> "Greater", val |-> 1]

\* Ord for Bitmap with the two match arms -1 and 1 exchanged
cmp_arms_exchanged(self, other) ==
    LET result == hwloc_bitmap_compare(self, other)
    IN  IF result = -1 THEN Greater
        ELSE IF result = 0 THEN Equal
        ELSE IF result = 1 THEN Less
        ELSE Panic

\* Ord for Bitmap; any other result reaches unreachable!()
cmp(self, other) ==
    LET result == hwloc_bitmap_compare(self, other)
    IN  IF result = -1 THEN Less
        ELSE IF result = 0 THEN Equal
        ELSE IF result = 1 THEN Greater
        ELSE Panic

\* PartialOrd for Bitmap
partial_cmp(self, other) == Some(cmp(self, other))

\* Extend::extend: for i in iter { self.set(*i.borrow()) }
RECURSIVE extend(_, _)
extend(self, iter) ==
    IF iter = <<>> THEN self
    ELSE extend(set(self, Head(iter)), Tail(iter))

\* FromIterator::from_iter
from_iter(iter) == extend(new, iter)

\* Bitmap::next without its assert!(result >= -1): a code below -1 is
\* handed to try_from_c_int, which turns it into None
next_unasserted(self, index, next_fn) ==
    LET prev == into_c_int_or(index)
        result == IF next_fn = "hwloc_bitmap_next"
                  THEN hwloc_bitmap_next(self, prev)
                  ELSE hwloc_bitmap_next_unset(self, prev)
    IN  try_from_c_int(result)

\* Bitmap::next, the iterator building block; next_fn names the hwloc
\* entry point the closure calls
next(self, index, next_fn) ==
    LET prev == into_c_int_or(index)
        result == IF next_fn = "hwloc_bitmap_next"
                  THEN hwloc_bitmap_next(self, prev)
                  ELSE hwloc_bitmap_next_unset(self, prev)
    IN  IF result < -1 THEN Panic
        ELSE try_from_c_int(result)

\* Bitmap::next_set
next_set(self, index) == next(self, index, "hwloc_bitmap_next")

\* Bitmap::next_unset
next_unset(self, index) == next(self, index, "hwloc_bitmap_next_unset")

\* BitmapIterator::new; next names the fn pointer stored in the iterator
BitmapIterator_new(bitmap, next_name) ==
    [bitmap |-> bitmap, prev |-> None, next |-> next_name]

\* Bitmap::iter_set
iter_set(self) == BitmapIterator_new(self, "next_set")

\* iter_unset() built on Bitmap::next_set
iter_unset_on_next_set(self) == BitmapIterator_new(self, "next_set")

\* Bitmap::iter_unset
iter_unset(self) == BitmapIterator_new(self, "next_unset")

\* IntoIterator::into_iter for &Bitmap and for Bitmap
into_iter(self) == BitmapIterator_new(self, "next_set")

\* (self.next)(self.bitmap.borrow(), self.prev)
call_next(iter) ==
    IF iter.next = "next_set" THEN next_set(iter.bitmap, iter.prev)
    ELSE next_unset(iter.bitmap, iter.prev)

\* Iterator::next for BitmapIterator: the value returned (or Panic)
BitmapIterator_next(iter) == call_next(iter)

\* Iterator::next for BitmapIterator: the iterator afterwards. A panic
\* unwinds out of the call before self.prev is assigned.
BitmapIterator_after(iter) ==
    LET r == call_next(iter)
    IN  IF r = Panic THEN iter ELSE [iter EXCEPT !.prev = r]

\* ---------------------------------------------------------------------
\* State
\* ---------------------------------------------------------------------

VARIABLES
    a,      \* the bitmap operated on (self)
    b,      \* the other operand (rhs / inner)
    src,    \* the input last handed to an operation: the index collection
            \* of from_iter / extend, the index of set / unset (as a
            \* collection of one), the range of the range operations
    out,    \* the last operation: its name, how often it ran, the value of
            \* self before it, the bitmap (r) and the other value (t) it
            \* returned; t of a range operation tells that it panicked
    it,     \* the BitmapIterator being advanced; the pair of them when
            \* iter_set and iter_unset are advanced side by side
    hist,   \* what each advancement of it returned, in call order; the
            \* names of the operations run so far where storage is followed
    heap,   \* the allocations made through hwloc, by address: what each
            \* holds, how often it was released and how often it was
            \* reached after its release
    refs    \* the live views (BitmapRef) of the bitmaps

vars == <<a, b, src, out, it, hist, heap, refs>>

\* Longest index collection handed to from_iter / extend: long enough to
\* name every valid index
MaxLen == MAX + 1

Range(s) == {s[k] : k \in 1..Len(s)}

\* The index collections of at most MaxLen items (duplicates allowed)
IndexIters == UNION {[1..n -> BitmapIndex] : n \in 0..MaxLen}

\* Longest index collection handed to extend on an existing bitmap
MaxExtend == 2

\* The index collections of at most MaxExtend items
ShortIters == UNION {[1..n -> BitmapIndex] : n \in 0..MaxExtend}

Op(name, n, a0, r, t) == [op |-> name, n |-> n, a0 |-> a0, r |-> r, t |-> t]

\* No iterator created yet
NoIter == [bitmap |-> new, prev |-> None, next |-> "none"]

\* ---------------------------------------------------------------------
\* Spec: building a bitmap from index collections
\* ---------------------------------------------------------------------

Init ==
    /\ a = new
    /\ b = new
    /\ src = <<>>
    /\ out = Op("new", 0, new, new, FALSE)
    /\ it = NoIter
    /\ hist = <<>>
    /\ heap = <<>>
    /\ refs = {}

\* let a = iter.collect::<Bitmap>(), in place of Bitmap::new()
FromIter(iter) ==
    /\ out.op = "new"
    /\ a' = from_iter(iter)
    /\ src' = iter
    /\ out' = Op("from_iter", 1, new, new, FALSE)
    /\ UNCHANGED <<b, it, hist, heap, refs>>

\* a.extend(iter)
Extend(iter) ==
    /\ a' = extend(a, iter)
    /\ src' = iter
    /\ out' = Op("extend", 1, a, new, FALSE)
    /\ UNCHANGED <<b, it, hist, heap, refs>>

\* a.clear()
Clear ==
    /\ a' = clear(a)
    /\ src' = <<>>
    /\ out' = Op("clear", 1, a, new, FALSE)
    /\ UNCHANGED <<b, it, hist, heap, refs>>

Next ==
    \/ \E iter \in IndexIters : FromIter(iter)
    \/ \E iter \in ShortIters : Extend(iter)
    \/ Clear

Spec == Init /\ [][Next]_vars

\* C1: a bitmap built from a finite index collection S (from_iter, or extend
\* on an empty bitmap) has weight() == Some(number of distinct indices of S)
\* and is_set(i) exactly for the indices i of S.
C1_BuiltFromIndices ==
    (out.op = "from_iter" \/ (out.op = "extend" /\ is_empty(out.a0))) =>
        /\ weight(a) = Some(Cardinality(Range(src)))
        /\ \A i \in BitmapIndex : is_set(a, i) <=> (i \in Range(src))

\* ---------------------------------------------------------------------
\* SpecIter: iterating over the set / unset indices of any bitmap
\* ---------------------------------------------------------------------

\* Most advancements of one iterator
MaxAdvance == 6

InitIter ==
    /\ a \in AllBitmaps
    /\ b = new
    /\ src = <<>>
    /\ out = Op("new", 0, a, new, FALSE)
    /\ it = NoIter
    /\ hist = <<>>
    /\ heap = <<>>
    /\ refs = {}

\* let it = a.iter_set()
IterSet ==
    /\ it = NoIter
    /\ it' = iter_set(a)
    /\ out' = Op("iter_set", 1, a, new, FALSE)
    /\ UNCHANGED <<a, b, src, hist, heap, refs>>

\* let it = a.iter_unset()
IterUnset ==
    /\ it = NoIter
    /\ it' = iter_unset(a)
    /\ out' = Op("iter_unset", 1, a, new, FALSE)
    /\ UNCHANGED <<a, b, src, hist, heap, refs>>

\* let it = (&a).into_iter() / a.into_iter()
IntoIter ==
    /\ it = NoIter
    /\ it' = into_iter(a)
    /\ out' = Op("into_iter", 1, a, new, FALSE)
    /\ UNCHANGED <<a, b, src, hist, heap, refs>>

\* it.next()
Advance ==
    /\ it # NoIter
    /\ Len(hist) < MaxAdvance
    /\ hist' = Append(hist, BitmapIterator_next(it))
    /\ it' = BitmapIterator_after(it)
    /\ UNCHANGED <<a, b, src, out, heap, refs>>

NextIter ==
    \/ IterSet
    \/ IterUnset
    \/ IntoIter
    \/ Advance

SpecIter == InitIter /\ [][NextIter]_vars

\* The indices the iterator ranges over that lie in [0, MAX]
Direction(iter) ==
    IF iter.next = "next_set"
    THEN {i \in BitmapIndex : is_set(iter.bitmap, i)}
    ELSE {i \in BitmapIndex : ~is_set(iter.bitmap, i)}

\* The iterator ranges over infinitely many indices: the set indices of a
\* bitmap of infinite weight, the unset indices of one of finite weight
InfiniteDirection(iter) ==
    /\ iter.next # "none"
    /\ (iter.next = "next_set") <=> (weight(iter.bitmap) = None)

\* The index produced last before advancement k, -1 if none was
Produced(k) == {hist[j].val : j \in {j \in 1..(k - 1) : hist[j].tag = "Some"}}
LastProduced(k) ==
    LET js == {j \in 1..(k - 1) : hist[j].tag = "Some"}
    IN  IF js = {} THEN -1 ELSE hist[SetMax(js)].val

\* C2: once an iterator has returned None, every later advancement of it
\* returns None too.
C2_Fused ==
    \A i, j \in 1..Len(hist) : (i < j /\ hist[i] = None) => hist[j] = None

\* C3: every index an advancement returns is the smallest index of the
\* iterated kind strictly greater than the one produced before it (the
\* first one when none was produced), None is returned only when no such
\* index is left, and no index is produced twice.
C3_AscendingExact ==
    \A k \in 1..Len(hist) :
        LET left == {i \in Direction(it) : i > LastProduced(k)}
        IN  /\ hist[k].tag = "Some" =>
                /\ left # {}
                /\ hist[k].val = SetMin(left)
                /\ hist[k].val \notin Produced(k)
            /\ hist[k] = None => left = {}

InitOps ==
    /\ a \in AllBitmaps
    /\ b \in AllBitmaps
    /\ src = <<>>
    /\ out = Op("new", 0, a, new, FALSE)
    /\ it = NoIter
    /\ hist = <<>>
    /\ heap = <<>>
    /\ refs = {}

\* a.invert(), at most twice in a row
Invert ==
    /\ out.op \in {"new", "invert"}
    /\ out.n < 2
    /\ a' = invert(a)
    /\ out' = [out EXCEPT !.op = "invert", !.n = @ + 1]
    /\ UNCHANGED <<b, src, it, hist, heap, refs>>

\* let r = !&a; then let r = !r
NotOp ==
    \/ /\ out.op = "new"
       /\ out' = Op("not", 1, a, not(a), FALSE)
       /\ UNCHANGED <<a, b, src, it, hist, heap, refs>>
    \/ /\ out.op = "not"
       /\ out.n < 2
       /\ out' = [out EXCEPT !.n = @ + 1, !.r = not_owned(out.r)]
       /\ UNCHANGED <<a, b, src, it, hist, heap, refs>>

\* let r = &a & &b
BitAnd ==
    /\ out.op = "new"
    /\ out' = Op("bitand", 1, a, bitand(a, b), FALSE)
    /\ UNCHANGED <<a, b, src, it, hist, heap, refs>>

\* let r = &a | &b
BitOr ==
    /\ out.op = "new"
    /\ out' = Op("bitor", 1, a, bitor(a, b), FALSE)
    /\ UNCHANGED <<a, b, src, it, hist, heap, refs>>

\* let r = &a ^ &b
BitXor ==
    /\ out.op = "new"
    /\ out' = Op("bitxor", 1, a, bitxor(a, b), FALSE)
    /\ UNCHANGED <<a, b, src, it, hist, heap, refs>>

\* let r = &a - &b
Sub ==
    /\ out.op = "new"
    /\ out' = Op("sub", 1, a, sub(a, b), FALSE)
    /\ UNCHANGED <<a, b, src, it, hist, heap, refs>>

\* a -= &b
SubAssign ==
    /\ out.op = "new"
    /\ a' = sub_assign(a, b)
    /\ out' = Op("sub_assign", 1, a, new, FALSE)
    /\ UNCHANGED <<b, src, it, hist, heap, refs>>

\* let t = a.includes(&b)
Includes ==
    /\ out.op = "new"
    /\ out' = Op("includes", 1, a, new, includes(a, b))
    /\ UNCHANGED <<a, b, src, it, hist, heap, refs>>

\* let t = a.intersects(&b)
Intersects ==
    /\ out.op = "new"
    /\ out' = Op("intersects", 1, a, new, intersects(a, b))
    /\ UNCHANGED <<a, b, src, it, hist, heap, refs>>

\* let t = a.cmp(&b)
Cmp ==
    /\ out.op = "new"
    /\ out' = Op("cmp", 1, a, new, cmp(a, b))
    /\ UNCHANGED <<a, b, src, it, hist, heap, refs>>

\* let t = a.partial_cmp(&b)
PartialCmp ==
    /\ out.op = "new"
    /\ out' = Op("partial_cmp", 1, a, new, partial_cmp(a, b))
    /\ UNCHANGED <<a, b, src, it, hist, heap, refs>>

\* let t = a == b
Eq ==
    /\ out.op = "new"
    /\ out' = Op("eq", 1, a, new, eq(a, b))
    /\ UNCHANGED <<a, b, src, it, hist, heap, refs>>

NextOps ==
    \/ Invert
    \/ NotOp
    \/ BitAnd
    \/ BitOr
    \/ BitXor
    \/ Sub
    \/ SubAssign
    \/ Includes
    \/ Intersects
    \/ Cmp
    \/ PartialCmp
    \/ Eq

SpecOps == InitOps /\ [][NextOps]_vars

\* C5: inverting twice yields the original bitmap, with invert() in place
\* and with the ! operator.
C5_Involution ==
    /\ (out.op = "invert" /\ out.n = 2) => eq(a, out.a0)
    /\ (out.op = "not" /\ out.n = 2) => eq(out.r, a)

\* A bitmap with an infinite tail that is not full was inverted twice
C5_Witness ==
    /\ out.op = "invert"
    /\ out.n = 2
    /\ weight(a) = None
    /\ ~is_full(a)

\* C6: !(a & b) == !a | !b and !(a | b) == !a & !b.
C6_DeMorgan ==
    /\ out.op = "bitand" => eq(not(out.r), bitor(not(a), not(b)))
    /\ out.op = "bitor" => eq(not(out.r), bitand(not(a), not(b)))

\* a | b was computed for an infinite a and a finite b that overlap partly
C6_Witness ==
    /\ out.op = "bitor"
    /\ weight(a) = None
    /\ weight(b) # None
    /\ intersects(a, b)
    /\ ~includes(a, b)

\* C7: (a | b) - (a & b) == a ^ b.
C7_XorIdentity ==
    out.op = "bitxor" => eq(sub_owned(bitor(a, b), bitand(a, b)), out.r)

\* a ^ b was computed for two different overlapping infinite bitmaps
C7_Witness ==
    /\ out.op = "bitxor"
    /\ weight(a) = None
    /\ weight(b) = None
    /\ ~eq(a, b)
    /\ ~is_empty(out.r)

\* C8: a - b equals a & !b, and a -= b leaves a equal to that value.
C8_SubIsAndNot ==
    /\ out.op = "sub" => eq(out.r, bitand(a, not(b)))
    /\ out.op = "sub_assign" => eq(a, bitand(out.a0, not(b)))

\* a -= b ran with an infinite a and a b that removed some of it
C8_Witness ==
    /\ out.op = "sub_assign"
    /\ weight(out.a0) = None
    /\ ~eq(a, out.a0)
    /\ ~is_empty(a)

\* C9: every bitmap includes the empty bitmap and intersects it in neither
\* order; the empty bitmap includes a bitmap only when that one is empty.
C9_EmptyOperand ==
    /\ (out.op = "includes" /\ is_empty(b)) => out.t
    /\ (out.op = "intersects" /\ (is_empty(a) \/ is_empty(b))) => ~out.t
    /\ (out.op = "includes" /\ is_empty(a)) => (out.t <=> is_empty(b))

\* includes ran on an infinite bitmap with the empty bitmap as its operand
C9_Witness ==
    /\ out.op = "includes"
    /\ is_empty(b)
    /\ weight(a) = None

\* C10: a.includes(b) exactly when every index set in b is set in a, the
\* indices of infinite tails included: a bitmap of finite weight never
\* includes one of infinite weight.
C10_IncludesIsSubset ==
    out.op = "includes" =>
        (out.t <=>
            /\ \A i \in BitmapIndex : is_set(b, i) => is_set(a, i)
            /\ (weight(b) = None => weight(a) = None))

\* includes held between two different bitmaps with infinite tails
C10_Witness ==
    /\ out.op = "includes"
    /\ out.t
    /\ weight(a) = None
    /\ weight(b) = None
    /\ ~eq(a, b)
    /\ ~is_full(a)

\* The ordering decided at the highest index of [0, MAX] at which x and y
\* differ, Equal when they differ at none
DecidedAtHighest(x, y) ==
    LET differ == {i \in BitmapIndex : is_set(x, i) # is_set(y, i)}
    IN  IF differ = {} THEN Equal
        ELSE IF is_set(x, SetMax(differ)) THEN Greater
        ELSE Less

Reverse(o) == IF o = Less THEN Greater ELSE IF o = Greater THEN Less ELSE o

\* C11: cmp is a total order: a bitmap with an infinite tail is Greater
\* than one of finite weight; otherwise the bitmap holding the highest index
\* at which the two differ is Greater, and they are Equal when they differ
\* at none.  partial_cmp returns the same ordering.
C11_TotalOrder ==
    /\ out.op = "cmp" =>
        /\ out.t = IF weight(a) = None /\ weight(b) # None THEN Greater
                   ELSE IF weight(a) # None /\ weight(b) = None THEN Less
                   ELSE DecidedAtHighest(a, b)
        /\ cmp(b, a) = Reverse(out.t)
        /\ \A c \in AllBitmaps :
               (out.t # Greater /\ cmp(b, c) # Greater) => cmp(a, c) # Greater
    /\ out.op = "partial_cmp" => out.t = Some(cmp(a, b))

\* Two bitmaps with infinite tails were compared, the greater one does not
\* include the lesser one
C11_Witness ==
    /\ out.op = "cmp"
    /\ weight(a) = None
    /\ weight(b) = None
    /\ out.t = Greater
    /\ ~includes(a, b)

\* C12: a == b exactly when a.cmp(b) is Equal, and exactly when a includes
\* b and b includes a.
C12_EqAgrees ==
    out.op = "eq" =>
        /\ out.t <=> (cmp(a, b) = Equal)
        /\ out.t <=> (includes(a, b) /\ includes(b, a))

\* Two bitmaps, one strictly included in the other, were tested for equality
C12_Witness ==
    /\ out.op = "eq"
    /\ ~out.t
    /\ includes(b, a)
    /\ weight(a) = None

\* ---------------------------------------------------------------------
\* SpecMut: the in-place operations on any bitmap
\* ---------------------------------------------------------------------

InitMut ==
    /\ a \in AllBitmaps
    /\ b = new
    /\ src = <<>>
    /\ out = Op("new", 0, a, new, FALSE)
    /\ it = NoIter
    /\ hist = <<>>
    /\ heap = <<>>
    /\ refs = {}

\* a.fill()
Fill ==
    /\ out.op = "new"
    /\ a' = fill(a)
    /\ out' = Op("fill", 1, a, new, FALSE)
    /\ UNCHANGED <<b, src, it, hist, heap, refs>>

\* a.set(idx)
Set(idx) ==
    /\ out.op = "new"
    /\ a' = set(a, idx)
    /\ src' = <<idx>>
    /\ out' = Op("set", 1, a, new, FALSE)
    /\ UNCHANGED <<b, it, hist, heap, refs>>

\* a.unset(idx)
Unset(idx) ==
    /\ out.op = "new"
    /\ a' = unset(a, idx)
    /\ src' = <<idx>>
    /\ out' = Op("unset", 1, a, new, FALSE)
    /\ UNCHANGED <<b, it, hist, heap, refs>>

\* a.set_only(idx)
SetOnly(idx) ==
    /\ out.op = "new"
    /\ a' = set_only(a, idx)
    /\ src' = <<idx>>
    /\ out' = Op("set_only", 1, a, new, FALSE)
    /\ UNCHANGED <<b, it, hist, heap, refs>>

\* a.set_all_but(idx)
SetAllBut(idx) ==
    /\ out.op = "new"
    /\ a' = set_all_but(a, idx)
    /\ src' = <<idx>>
    /\ out' = Op("set_all_but", 1, a, new, FALSE)
    /\ UNCHANGED <<b, it, hist, heap, refs>>

\* a.singlify()
Singlify ==
    /\ out.op = "new"
    /\ a' = singlify(a)
    /\ out' = Op("singlify", 1, a, new, FALSE)
    /\ UNCHANGED <<b, src, it, hist, heap, refs>>

\* let t = format!("{a}"); then let t = format!("{a:?}")
Format ==
    \/ /\ out.op = "new"
       /\ out' = Op("fmt", 1, a, new, fmt(a))
       /\ UNCHANGED <<a, b, src, it, hist, heap, refs>>
    \/ /\ out.op = "fmt"
       /\ out' = Op("debug_fmt", 1, a, new, debug_fmt(a))
       /\ UNCHANGED <<a, b, src, it, hist, heap, refs>>

\* The index values handed to the range operations: the valid indices,
\* one below and one above them
IdxValues == (MIN - 1)..(MAX + 1)

Bounds ==
    {Unbounded} \cup {Included(i) : i \in IdxValues}
                \cup {Excluded(i) : i \in IdxValues}

\* The values of impl RangeBounds<Idx>
Ranges == [start : Bounds, end : Bounds]

\* a.set_range(range); a panic leaves a as it was
SetRange(range) ==
    /\ out.op = "new"
    /\ LET r == set_range(a, range)
       IN  /\ a' = IF r = Panic THEN a ELSE r.val
           /\ out' = Op("set_range", 1, a, new, r = Panic)
    /\ src' = range
    /\ UNCHANGED <<b, it, hist, heap, refs>>

\* a.unset_range(range); a panic leaves a as it was
UnsetRange(range) ==
    /\ out.op = "new"
    /\ LET r == unset_range(a, range)
       IN  /\ a' = IF r = Panic THEN a ELSE r.val
           /\ out' = Op("unset_range", 1, a, new, r = Panic)
    /\ src' = range
    /\ UNCHANGED <<b, it, hist, heap, refs>>

\* let r = Bitmap::from_range(range); no bitmap is returned on a panic
FromRange(range) ==
    /\ out.op = "new"
    /\ LET r == from_range(range)
       IN  out' = Op("from_range", 1, a, IF r = Panic THEN new ELSE r.val,
                     r = Panic)
    /\ src' = range
    /\ UNCHANGED <<a, b, it, hist, heap, refs>>

NextMut ==
    \/ Clear
    \/ Fill
    \/ \E idx \in BitmapIndex : Set(idx)
    \/ \E idx \in BitmapIndex : Unset(idx)
    \/ \E idx \in BitmapIndex : SetOnly(idx)
    \/ \E idx \in BitmapIndex : SetAllBut(idx)
    \/ Singlify
    \/ Format
    \/ \E range \in Ranges : SetRange(range)
    \/ \E range \in Ranges : UnsetRange(range)
    \/ \E range \in Ranges : FromRange(range)

SpecMut == InitMut /\ [][NextMut]_vars

\* The set indices of [0, MAX]
SetIndices(bm) == {i \in BitmapIndex : is_set(bm, i)}

\* C13: weight() is None exactly when the bitmap has an infinite tail and
\* otherwise Some(number of set indices); is_empty() exactly when weight()
\* is Some(0); is_full() exactly when every index is set.
C13_WeightExact ==
    /\ weight(a) = IF a.infinite THEN None ELSE Some(Cardinality(a.ulongs))
    /\ is_empty(a) <=> (weight(a) = Some(0))
    /\ is_full(a) <=> (SetIndices(a) = BitmapIndex /\ a.infinite)

\* The maximal runs of consecutive set indices of bm, each as <<first, last>>
\* with last = MAX + 1 standing for a run that holds the infinite tail
MaximalRuns(bm) ==
    LET IsSet(i) == IF i \in BitmapIndex THEN is_set(bm, i)
                    ELSE i = MAX + 1 /\ weight(bm) = None
    IN  {r \in (0..(MAX + 1)) \X (0..(MAX + 1)) :
            /\ r[1] <= r[2]
            /\ \A i \in r[1]..r[2] : IsSet(i)
            /\ ~IsSet(r[1] - 1)
            /\ r[2] = MAX + 1 \/ ~IsSet(r[2] + 1)}

\* 'N' for a run of one index, 'N-M' for a run of several, 'N-' for the
\* run holding the infinite tail
Token(r) ==
    IF r[2] = MAX + 1 THEN ToString(r[1]) \o "-"
    ELSE IF r[1] = r[2] THEN ToString(r[1])
    ELSE ToString(r[1]) \o "-" \o ToString(r[2])

\* The tokens of the runs, in ascending order, separated by commas
RECURSIVE CommaSeparated(_)
CommaSeparated(runs) ==
    IF runs = {} THEN ""
    ELSE LET r == CHOOSE x \in runs : \A y \in runs : x[1] >= y[1]
             before == CommaSeparated(runs \ {r})
         IN  IF before = "" THEN Token(r) ELSE before \o "," \o Token(r)

\* C14: the rendering of a bitmap is the comma-separated list, in ascending
\* order, of the tokens of its maximal runs of consecutive set indices; the
\* empty bitmap renders as the empty string and the full bitmap as "0-".
\* The Debug rendering is the same text.
C14_Rendering ==
    out.op \in {"fmt", "debug_fmt"} =>
        /\ out.t = CommaSeparated(MaximalRuns(a))
        /\ is_empty(a) => out.t = ""
        /\ is_full(a) => out.t = "0-"

\* A bitmap with a finite run of several indices and an infinite tail that
\* starts above a hole was rendered
C14_Witness ==
    /\ out.op = "fmt"
    /\ \E r \in MaximalRuns(a) : r[1] < r[2] /\ r[2] < MAX
    /\ weight(a) = None
    /\ ~is_set(a, MAX)

\* ---------------------------------------------------------------------
\* SpecBoth: iter_set and iter_unset of one bitmap advanced side by side
\* ---------------------------------------------------------------------

\* let it = (a.iter_set().peekable(), a.iter_unset().peekable())
IterBoth ==
    /\ out.op = "new"
    /\ it' = <<iter_set(a), iter_unset(a)>>
    /\ out' = Op("iter_both", 1, a, new, FALSE)
    /\ UNCHANGED <<a, b, src, hist, heap, refs>>

\* while let (Some(next_set), Some(next_unset)) = (peek, peek): move the
\* least advanced iterator forward
AdvanceLeast ==
    /\ out.op = "iter_both"
    /\ LET peek_set == BitmapIterator_next(it[1])
           peek_unset == BitmapIterator_next(it[2])
       IN  /\ peek_set.tag = "Some"
           /\ peek_unset.tag = "Some"
           /\ peek_set.val # peek_unset.val
           /\ IF peek_set.val < peek_unset.val
              THEN /\ hist' = Append(hist, [from |-> "iter_set",
                                            item |-> peek_set.val])
                   /\ it' = <<BitmapIterator_after(it[1]), it[2]>>
              ELSE /\ hist' = Append(hist, [from |-> "iter_unset",
                                            item |-> peek_unset.val])
                   /\ it' = <<it[1], BitmapIterator_after(it[2])>>
    /\ UNCHANGED <<a, b, src, out, heap, refs>>

NextBoth ==
    \/ IterBoth
    \/ AdvanceLeast

SpecBoth == InitIter /\ [][NextBoth]_vars

\* The indices an iterator produces from its current position until it
\* first returns something else than an index
RECURSIVE ItemsLeft(_)
ItemsLeft(iter) ==
    LET r == BitmapIterator_next(iter)
    IN  IF r.tag = "Some" THEN {r.val} \cup ItemsLeft(BitmapIterator_after(iter))
        ELSE {}

C16_SinglifyLowest ==
    (out.op = "singlify" /\ ~is_empty(out.a0)) =>
        /\ weight(a) = Some(1)
        /\ SetIndices(a) = IF SetIndices(out.a0) # {}
                           THEN {SetMin(SetIndices(out.a0))}
                           ELSE {}
        /\ first_set(out.a0).tag = "Some" => first_set(a) = first_set(out.a0)
        /\ includes(out.a0, a) \/ SetIndices(out.a0) = {}

\* singlify ran on a bitmap with an infinite tail whose lowest set index is
\* not 0
C16_Witness ==
    /\ out.op = "singlify"
    /\ weight(out.a0) = None
    /\ first_set(a).tag = "Some"
    /\ first_set(a).val > 0

\* C17: set(idx) and unset(idx) change the membership of idx only.  After
\* set(idx), idx is set and every other index is as before; a finite weight
\* grows by 1 if idx was unset and by 0 otherwise, an infinite weight stays
\* infinite.  After unset(idx), idx is unset and every other index is as
\* before; a finite weight shrinks by 1 if idx was set and by 0 otherwise.
C17_SetUnsetFrame ==
    /\ out.op = "set" =>
        /\ is_set(a, src[1])
        /\ \A i \in BitmapIndex \ {src[1]} : is_set(a, i) <=> is_set(out.a0, i)
        /\ weight(out.a0) = None => weight(a) = None
        /\ weight(out.a0).tag = "Some" =>
               weight(a) = Some(weight(out.a0).val
                                + (IF is_set(out.a0, src[1]) THEN 0 ELSE 1))
    /\ out.op = "unset" =>
        /\ ~is_set(a, src[1])
        /\ \A i \in BitmapIndex \ {src[1]} : is_set(a, i) <=> is_set(out.a0, i)
        /\ weight(out.a0) = None => weight(a) = None
        /\ weight(out.a0).tag = "Some" =>
               weight(a) = Some(weight(out.a0).val
                                - (IF is_set(out.a0, src[1]) THEN 1 ELSE 0))

\* The valid indices a range covers
Covered(range) ==
    {i \in BitmapIndex :
        /\ range.start.kind = "Included" => i >= range.start.idx
        /\ range.start.kind = "Excluded" => i > range.start.idx
        /\ range.end.kind = "Included" => i <= range.end.idx
        /\ range.end.kind = "Excluded" => i < range.end.idx}

\* The range goes on from a valid index without an end
CoversTail(range) == range.end.kind = "Unbounded" /\ Covered(range) # {}

\* A bounded endpoint of the range is not a valid index
BeyondIndices(range) ==
    \/ range.start.kind # "Unbounded" /\ range.start.idx \notin BitmapIndex
    \/ range.end.kind # "Unbounded" /\ range.end.idx \notin BitmapIndex

\* C18: set_range(r) leaves the bitmap equal to the previous set united
\* with the indices of r, unset_range(r) to the previous set minus the
\* indices of r: indices outside r keep their membership, indices inside r
\* are set (resp. unset), and a range that covers no index changes nothing.
\* from_range(r) is set_range(r) on the empty bitmap.
C18_RangeEffect ==
    /\ (out.op = "set_range" /\ ~out.t) =>
        /\ SetIndices(a) = SetIndices(out.a0) \cup Covered(src)
        /\ weight(a) = None <=> (weight(out.a0) = None \/ CoversTail(src))
        /\ Covered(src) = {} => eq(a, out.a0)
    /\ (out.op = "unset_range" /\ ~out.t) =>
        /\ SetIndices(a) = SetIndices(out.a0) \ Covered(src)
        /\ weight(a) = None <=> (weight(out.a0) = None /\ ~CoversTail(src))
        /\ Covered(src) = {} => eq(a, out.a0)
    /\ (out.op = "from_range" /\ ~out.t) =>
        /\ SetIndices(out.r) = Covered(src)
        /\ weight(out.r) = None <=> CoversTail(src)

\* unset_range with one excluded and one included bound removed indices
\* from the middle of a bitmap with an infinite tail
C18_Witness ==
    /\ out.op = "unset_range"
    /\ ~out.t
    /\ src.start.kind = "Excluded"
    /\ src.end.kind = "Included"
    /\ weight(a) = None
    /\ Covered(src) # {}
    /\ ~eq(a, out.a0)
    /\ is_set(a, 0)

\* Shifting an excluded bound of the range by one step would leave the
\* valid indices: excluded start at MAX, or excluded end at 0
ShiftLeavesIndices(range) ==
    \/ range.start = Excluded(MAX)
    \/ range.end = Excluded(MIN)

\* The range operation recorded in out treated its range as empty and did
\* not panic
TreatedAsEmpty ==
    /\ ~out.t
    /\ out.op \in {"set_range", "unset_range"} => eq(a, out.a0)
    /\ out.op = "from_range" => is_empty(out.r)

\* C19 as stated: a range with an excluded start at MAX or an excluded end
\* at 0 is treated as empty, without a panic, whatever its other bound is.
C19_ShiftCollapses ==
    (out.op \in {"set_range", "unset_range", "from_range"}
        /\ ShiftLeavesIndices(src)) => TreatedAsEmpty

\* C19 as amended: a range with an excluded start at MAX or an excluded end
\* at 0, each bounded endpoint of which is a valid index, is treated as
\* empty: from_range yields the empty bitmap, set_range and unset_range
\* leave the bitmap unchanged, and none of them panics.
C19_ShiftCollapsesValid ==
    (out.op \in {"set_range", "unset_range", "from_range"}
        /\ ShiftLeavesIndices(src)
        /\ ~BeyondIndices(src)) => TreatedAsEmpty

\* set_range ran on a non-empty bitmap of finite weight with a range from
\* MAX excluded to no end
C19_Witness ==
    /\ out.op = "set_range"
    /\ src = [start |-> Excluded(MAX), end |-> Unbounded]
    /\ ~is_empty(out.a0)
    /\ weight(a) # None

\* C20: from_range, set_range and unset_range panic whenever a bounded
\* endpoint of the range, start or end, included or excluded, is not a
\* valid index.
C20_PanicsBeyondIndices ==
    (out.op \in {"set_range", "unset_range", "from_range"}
        /\ BeyondIndices(src)) => out.t

\* ---------------------------------------------------------------------
\* Storage: a Bitmap is a pointer to an allocation made by hwloc
\* ---------------------------------------------------------------------

\* No value: the variable was never bound, or its value was dropped
NULL == 0

\* One allocation: what it holds, how often it was released, how often it
\* was reached after its release
Cell(v) == [val |-> v, freed |-> 0, stale |-> 0]

\* A fresh allocation, at the address after the last one
malloc(h, v) == Append(h, Cell(v))

\* An access through ptr; reaching a released allocation is counted
access(h, ptr) ==
    IF h[ptr].freed > 0 THEN [h EXCEPT ![ptr].stale = @ + 1] ELSE h

\* A new bitmap holding what the bitmap at ptr holds
hwloc_bitmap_dup(h, ptr) == malloc(access(h, ptr), h[ptr].val)

\* The bitmap at dst is made to hold what the bitmap at source holds
hwloc_bitmap_copy(h, dst, source) ==
    [access(access(h, dst), source) EXCEPT ![dst].val = h[source].val]

\* The allocation at ptr is released
hwloc_bitmap_free(h, ptr) == [h EXCEPT ![ptr].freed = @ + 1]

\* Bitmap::from_owned_nonnull(ptr): Self(ptr)
from_owned_nonnull(h, ptr) == [heap |-> h, ptr |-> ptr]

\* clone() handing back the pointer of self
clone_aliased(h, self) == from_owned_nonnull(h, self)

\* clone(): hwloc_bitmap_dup(self.as_ptr()), then from_owned_nonnull
clone(h, self) ==
    from_owned_nonnull(hwloc_bitmap_dup(h, self), Len(h) + 1)

\* copy_from(): hwloc_bitmap_copy(self.as_mut_ptr(), other.as_ptr())
copy_from(h, self, other) == hwloc_bitmap_copy(h, self, other)

\* drop(): hwloc_bitmap_free(self.as_mut_ptr())
drop(h, self) == hwloc_bitmap_free(h, self)

\* The in-place operations, by name, on the bitmap self points to
call_mut(h, self, name, idx) ==
    [access(h, self) EXCEPT ![self].val =
        CASE name = "clear" -> clear(@)
          [] name = "fill" -> fill(@)
          [] name = "invert" -> invert(@)
          [] name = "singlify" -> singlify(@)
          [] name = "set" -> set(@, idx)
          [] name = "unset" -> unset(@, idx)
          [] name = "set_only" -> set_only(@, idx)
          [] name = "set_all_but" -> set_all_but(@, idx)]

\* Bitmap::new(): hwloc_bitmap_alloc(), then from_owned_nonnull
Bitmap_new(h) == from_owned_nonnull(malloc(h, hwloc_bitmap_alloc), Len(h) + 1)

\* The assigning operators of Bitmap, by name:
\* hwloc_bitmap_<op>(self.as_mut_ptr(), self.as_ptr(), rhs.borrow().as_ptr())
op_assign(h, self, rhs, name) ==
    [access(access(h, self), rhs) EXCEPT ![self].val =
        CASE name = "bitand" -> bitand_assign(@, h[rhs].val)
          [] name = "bitor" -> bitor_assign(@, h[rhs].val)
          [] name = "bitxor" -> bitxor_assign(@, h[rhs].val)
          [] name = "sub" -> sub_assign(@, h[rhs].val)]

\* The operators of &Bitmap, by name: let mut result = Bitmap::new();
\* hwloc_bitmap_<op>(result.as_mut_ptr(), self.as_ptr(), rhs.borrow().as_ptr())
op_ref(h, self, rhs, name) ==
    LET result == Bitmap_new(access(access(h, self), rhs))
    IN  [result EXCEPT !.heap[result.ptr].val =
            CASE name = "bitand" -> bitand(h[self].val, h[rhs].val)
              [] name = "bitor" -> bitor(h[self].val, h[rhs].val)
              [] name = "bitxor" -> bitxor(h[self].val, h[rhs].val)
              [] name = "sub" -> sub(h[self].val, h[rhs].val)]

\* ---------------------------------------------------------------------
\* The methods as called: a call leaves self and returns or panics
\* ---------------------------------------------------------------------

\* The value ()
Unit == <<>>

\* What a call made of self, and what it returned (Returned(v) or Panic)
Call(self, ret) == [self |-> self, ret |-> ret]

\* set(idx) handing idx to hwloc_bitmap_set before converting it
Bitmap_set_engine_first(self, idx) ==
    Call(hwloc_bitmap_set(self, wrap_c_int(idx)),
         IF try_into(idx) = None THEN Panic ELSE Returned(Unit))

\* set(idx): let idx = idx.try_into().expect("Unsupported bitmap index"),
\* then hwloc_bitmap_set
Bitmap_set(self, idx) ==
    LET converted == try_into(idx)
    IN  IF converted = None THEN Call(self, Panic)
        ELSE Call(set(self, converted.val), Returned(Unit))

\* unset(idx): let idx = idx.try_into().expect("Unsupported bitmap index"),
\* then hwloc_bitmap_clr
Bitmap_unset(self, idx) ==
    LET converted == try_into(idx)
    IN  IF converted = None THEN Call(self, Panic)
        ELSE Call(unset(self, converted.val), Returned(Unit))

\* set_only(idx): let idx = idx.try_into().expect("Unsupported bitmap index"),
\* then hwloc_bitmap_only
Bitmap_set_only(self, idx) ==
    LET converted == try_into(idx)
    IN  IF converted = None THEN Call(self, Panic)
        ELSE Call(set_only(self, converted.val), Returned(Unit))

\* set_all_but(idx): let idx = idx.try_into().expect("Unsupported bitmap index"),
\* then hwloc_bitmap_allbut
Bitmap_set_all_but(self, idx) ==
    LET converted == try_into(idx)
    IN  IF converted = None THEN Call(self, Panic)
        ELSE Call(set_all_but(self, converted.val), Returned(Unit))

\* is_set(idx): let idx = idx.try_into().expect("Unsupported bitmap index"),
\* then hwloc_bitmap_isset
Bitmap_is_set(self, idx) ==
    LET converted == try_into(idx)
    IN  IF converted = None THEN Call(self, Panic)
        ELSE Call(self, Returned(is_set(self, converted.val)))

\* set_range(range) as a call: a panic is raised by hwloc_range, before hwloc
Bitmap_set_range(self, range) ==
    LET r == set_range(self, range)
    IN  IF r = Panic THEN Call(self, Panic) ELSE Call(r.val, Returned(Unit))

\* unset_range(range) as a call: a panic is raised by hwloc_range, before hwloc
Bitmap_unset_range(self, range) ==
    LET r == unset_range(self, range)
    IN  IF r = Panic THEN Call(self, Panic) ELSE Call(r.val, Returned(Unit))

\* ---------------------------------------------------------------------
\* impl_bitmap_newtype!: CpuSet and NodeSet, each a struct $newtype(Bitmap)
\* ---------------------------------------------------------------------

\* BitmapKind
Newtypes == {"CpuSet", "NodeSet"}

\* $newtype(bitmap), also the derived From<Bitmap>
newtype_from(newtype, bitmap) == [newtype |-> newtype, bitmap |-> bitmap]

\* Self::from(Bitmap::new())
newtype_new(newtype) == newtype_from(newtype, new)

\* Self::from(Bitmap::full())
newtype_full(newtype) == newtype_from(newtype, full)

\* Self::from(Bitmap::from_range(range))
newtype_from_range(newtype, range) ==
    LET r == from_range(range)
    IN  IF r = Panic THEN Panic ELSE Returned(newtype_from(newtype, r.val))

\* The result of a call on self.0, as a call on self
newtype_forward(self, call) == Call([self EXCEPT !.bitmap = call.self], call.ret)

\* self.0.copy_from(&other.0)
newtype_copy_from(self, other) ==
    LET h == copy_from(<<Cell(self.bitmap), Cell(other.bitmap)>>, 1, 2)
    IN  newtype_forward(self, Call(h[1].val, Returned(Unit)))

\* derived Clone: $newtype(self.0.clone())
newtype_clone(self) ==
    LET c == clone(<<Cell(self.bitmap)>>, 1)
    IN  Call(self, Returned(newtype_from(self.newtype, c.heap[c.ptr].val)))

\* clear() forwarded to self.0.fill()
newtype_clear_as_fill(self) ==
    newtype_forward(self, Call(fill(self.bitmap), Returned(Unit)))

\* self.0.clear()
newtype_clear(self) ==
    newtype_forward(self, Call(clear(self.bitmap), Returned(Unit)))

\* self.0.fill()
newtype_fill(self) ==
    newtype_forward(self, Call(fill(self.bitmap), Returned(Unit)))

\* self.0.singlify()
newtype_singlify(self) ==
    newtype_forward(self, Call(singlify(self.bitmap), Returned(Unit)))

\* self.0.invert()
newtype_invert(self) ==
    newtype_forward(self, Call(invert(self.bitmap), Returned(Unit)))

\* self.0.set_only(idx)
newtype_set_only(self, idx) == newtype_forward(self, Bitmap_set_only(self.bitmap, idx))

\* self.0.set_all_but(idx)
newtype_set_all_but(self, idx) == newtype_forward(self, Bitmap_set_all_but(self.bitmap, idx))

\* self.0.set(idx)
newtype_set(self, idx) == newtype_forward(self, Bitmap_set(self.bitmap, idx))

\* self.0.unset(idx)
newtype_unset(self, idx) == newtype_forward(self, Bitmap_unset(self.bitmap, idx))

\* self.0.is_set(idx)
newtype_is_set(self, idx) == newtype_forward(self, Bitmap_is_set(self.bitmap, idx))

\* self.0.set_range(range)
newtype_set_range(self, range) ==
    newtype_forward(self, Bitmap_set_range(self.bitmap, range))

\* self.0.unset_range(range)
newtype_unset_range(self, range) ==
    newtype_forward(self, Bitmap_unset_range(self.bitmap, range))

\* self.0.is_empty()
newtype_is_empty(self) == Call(self, Returned(is_empty(self.bitmap)))

\* self.0.is_full()
newtype_is_full(self) == Call(self, Returned(is_full(self.bitmap)))

\* self.0.iter_set()
newtype_iter_set(self) == Call(self, Returned(iter_set(self.bitmap)))

\* self.0.iter_unset()
newtype_iter_unset(self) == Call(self, Returned(iter_unset(self.bitmap)))

\* self.0.first_set()
newtype_first_set(self) ==
    LET r == first_set(self.bitmap)
    IN  Call(self, IF r = Panic THEN Panic ELSE Returned(r))

\* self.0.last_set()
newtype_last_set(self) ==
    LET r == last_set(self.bitmap)
    IN  Call(self, IF r = Panic THEN Panic ELSE Returned(r))

\* self.0.weight()
newtype_weight(self) ==
    LET r == weight(self.bitmap)
    IN  Call(self, IF r = Panic THEN Panic ELSE Returned(r))

\* self.0.first_unset()
newtype_first_unset(self) ==
    LET r == first_unset(self.bitmap)
    IN  Call(self, IF r = Panic THEN Panic ELSE Returned(r))

\* self.0.last_unset()
newtype_last_unset(self) ==
    LET r == last_unset(self.bitmap)
    IN  Call(self, IF r = Panic THEN Panic ELSE Returned(r))

\* self.0.intersects(&rhs.0)
newtype_intersects(self, rhs) ==
    Call(self, Returned(intersects(self.bitmap, rhs.bitmap)))

\* self.0.includes(&inner.0)
newtype_includes(self, inner) ==
    Call(self, Returned(includes(self.bitmap, inner.bitmap)))

\* $newtype(&self.0 & &rhs.borrow().0)
newtype_bitand(self, rhs) ==
    Call(self, Returned(newtype_from(self.newtype,
                                     bitand(self.bitmap, rhs.bitmap))))

\* self.0 &= &rhs.borrow().0
newtype_bitand_assign(self, rhs) ==
    newtype_forward(self, Call(bitand_assign(self.bitmap, rhs.bitmap),
                               Returned(Unit)))

\* $newtype(&self.0 | &rhs.borrow().0)
newtype_bitor(self, rhs) ==
    Call(self, Returned(newtype_from(self.newtype,
                                     bitor(self.bitmap, rhs.bitmap))))

\* self.0 |= &rhs.borrow().0
newtype_bitor_assign(self, rhs) ==
    newtype_forward(self, Call(bitor_assign(self.bitmap, rhs.bitmap),
                               Returned(Unit)))

\* $newtype(&self.0 ^ &rhs.borrow().0)
newtype_bitxor(self, rhs) ==
    Call(self, Returned(newtype_from(self.newtype,
                                     bitxor(self.bitmap, rhs.bitmap))))

\* self.0 ^= &rhs.borrow().0
newtype_bitxor_assign(self, rhs) ==
    newtype_forward(self, Call(bitxor_assign(self.bitmap, rhs.bitmap),
                               Returned(Unit)))

\* $newtype(&self.0 - &rhs.borrow().0)
newtype_sub(self, rhs) ==
    Call(self, Returned(newtype_from(self.newtype,
                                     sub(self.bitmap, rhs.bitmap))))

\* self.0 -= &rhs.borrow().0
newtype_sub_assign(self, rhs) ==
    newtype_forward(self, Call(sub_assign(self.bitmap, rhs.bitmap),
                               Returned(Unit)))

\* $newtype(!&self.0)
newtype_not(self) ==
    Call(self, Returned(newtype_from(self.newtype, not(self.bitmap))))

\* self.0 == other.borrow().0
newtype_eq(self, other) == Call(self, Returned(eq(self.bitmap, other.bitmap)))

\* self.0.partial_cmp(&other.borrow().0)
newtype_partial_cmp(self, other) ==
    Call(self, Returned(partial_cmp(self.bitmap, other.bitmap)))

\* derived Ord: the comparison of the one field
newtype_cmp(self, other) ==
    Call(self, Returned(cmp(self.bitmap, other.bitmap)))

\* Display of a wrapper writing only what Display of self.0 writes
newtype_fmt_bare(self) == fmt(self.bitmap)

\* Display: write!(f, "{}({})", stringify!($newtype), &self.0)
newtype_fmt(self) == self.newtype \o "(" \o fmt(self.bitmap) \o ")"

\* Debug: write!(f, "{}({:?})", stringify!($newtype), &self.0)
newtype_debug_fmt(self) ==
    self.newtype \o "(" \o debug_fmt(self.bitmap) \o ")"

\* B: Borrow<$newtype>: whether the operators of the type lhs take an
\* operand of the type rhs
Borrow(lhs, rhs) == lhs = rhs

\* ---------------------------------------------------------------------
\* BitmapRef<'target, Target>: a pointer to the storage of a live Target
\* ---------------------------------------------------------------------

\* From<&Target>: Self(input.as_raw(), PhantomData)
BitmapRef_from(target, ptr) == [ptr |-> ptr, target |-> target]

\* cast(): BitmapRef(self.0, PhantomData)
cast(self, other) == [ptr |-> self.ptr, target |-> other]

\* as_ref(): the view transmuted to &Target, a Target at the same pointer
as_ref(self) == self.ptr

\* The value of the type target stored at ptr
deref(h, target, ptr) ==
    IF target = "Bitmap" THEN h[ptr].val ELSE newtype_from(target, h[ptr].val)

\* <Target as PartialEq>::eq
Target_eq(target, x, y) ==
    IF target = "Bitmap" THEN eq(x, y) ELSE newtype_eq(x, y).ret.val

\* <Target as PartialOrd>::partial_cmp
Target_partial_cmp(target, x, y) ==
    IF target = "Bitmap" THEN partial_cmp(x, y)
    ELSE newtype_partial_cmp(x, y).ret.val

\* <Target as Ord>::cmp
Target_cmp(target, x, y) ==
    IF target = "Bitmap" THEN cmp(x, y) ELSE newtype_cmp(x, y).ret.val

\* <Target as Display>::fmt
Target_fmt(target, x) == IF target = "Bitmap" THEN fmt(x) ELSE newtype_fmt(x)

\* <Target as Debug>::fmt
Target_debug_fmt(target, x) ==
    IF target = "Bitmap" THEN debug_fmt(x) ELSE newtype_debug_fmt(x)

\* PartialEq: self.as_ref() == other
BitmapRef_eq(h, self, other) ==
    Target_eq(self.target, deref(h, self.target, as_ref(self)),
              deref(h, self.target, other))

\* PartialOrd: self.as_ref().partial_cmp(other)
BitmapRef_partial_cmp(h, self, other) ==
    Target_partial_cmp(self.target, deref(h, self.target, as_ref(self)),
                       deref(h, self.target, other))

\* An ordering of views by the address they hold
BitmapRef_cmp_by_address(h, self, other) ==
    IF self.ptr < other.ptr THEN Less
    ELSE IF self.ptr > other.ptr THEN Greater ELSE Equal

\* Ord: self.as_ref().cmp(other.as_ref())
BitmapRef_cmp(h, self, other) ==
    Target_cmp(self.target, deref(h, self.target, as_ref(self)),
               deref(h, self.target, as_ref(other)))

\* Display: <Target as Display>::fmt(self.as_ref(), f)
BitmapRef_fmt(h, self) ==
    Target_fmt(self.target, deref(h, self.target, as_ref(self)))

\* Debug: <Target as Debug>::fmt(self.as_ref(), f)
BitmapRef_debug_fmt(h, self) ==
    Target_debug_fmt(self.target, deref(h, self.target, as_ref(self)))

\* to_owned() handing back the pointer of the view as an owned value
BitmapRef_to_owned_aliased(h, self) == from_owned_nonnull(h, self.ptr)

\* ToOwned: self.as_ref().clone()
BitmapRef_to_owned(h, self) == clone(h, as_ref(self))

\* Not for &Bitmap through the pointer: let mut result = Bitmap::new();
\* hwloc_bitmap_not(result.as_mut_ptr(), self.as_ptr())
not_ref(h, self) ==
    LET result == Bitmap_new(access(h, self))
    IN  [result EXCEPT !.heap[result.ptr].val = not(h[self].val)]

\* Not: !(self.as_ref())
BitmapRef_not(h, self) == not_ref(h, as_ref(self))

\* BitAnd / BitOr / BitXor / Sub: self.as_ref() <op> rhs.borrow()
BitmapRef_op(h, self, rhs, name) == op_ref(h, as_ref(self), rhs, name)

\* IntoIterator: BitmapIterator::new(self.cast(), Bitmap::next_set); the
\* iterator keeps the view
BitmapRef_into_iter(self) ==
    [bitmap |-> cast(self, "Bitmap"), prev |-> None, next |-> "next_set"]

\* One advancement of an iterator that keeps a view
BitmapRef_iter_next(h, iter) ==
    call_next([iter EXCEPT !.bitmap = h[as_ref(iter.bitmap)].val])

\* A view that goes out of scope: BitmapRef has no Drop
BitmapRef_drop(h, self) == h

\* ---------------------------------------------------------------------
\* SpecHeap: owned bitmaps and their views, followed through the storage
\* ---------------------------------------------------------------------

\* let a = <any bitmap>; b and r (its pointer is kept in src) are not bound
\* yet.  out holds the name of the last operation, the storage before it
\* (a0), its arguments (r) and which value it acted on or bound (t)
InitHeap ==
    /\ \E x \in AllBitmaps : heap = malloc(<<>>, x)
    /\ a = 1
    /\ b = NULL
    /\ src = NULL
    /\ out = Op("new", 0, heap, <<>>, "a")
    /\ it = NoIter
    /\ hist = <<>>
    /\ refs = {}

Last(s) == IF s = <<>> THEN "new" ELSE s[Len(s)]

Ptr(which) == IF which = "a" THEN a ELSE IF which = "b" THEN b ELSE src

\* The in-place operations that take no index, and those that take one
Mutators == {"clear", "fill", "invert", "singlify"}
IndexMutators == {"set", "unset", "set_only", "set_all_but"}

\* The types a view is cast to
Targets == {"Bitmap"} \cup Newtypes

\* The operations reached through a view: those that return a value
\* computed from the bitmap, and those that return a new owned bitmap
ViewQueries ==
    {"ref_eq", "ref_partial_cmp", "ref_cmp", "ref_fmt", "ref_debug_fmt"}
ViewOwners == {"ref_to_owned", "ref_not", "ref_op"}

\* let b = a.clone()
Clone ==
    /\ hist = <<>>
    /\ LET c == clone(heap, a)
       IN  /\ heap' = c.heap
           /\ b' = c.ptr
    /\ hist' = <<"clone">>
    /\ out' = Op("clone", 1, heap, <<>>, "b")
    /\ UNCHANGED <<a, src, it, refs>>

\* let mut b = <any bitmap>
Let(x) ==
    /\ hist = <<>>
    /\ heap' = malloc(heap, x)
    /\ b' = Len(heap) + 1
    /\ hist' = <<"let">>
    /\ out' = Op("let", 1, heap, <<>>, "b")
    /\ UNCHANGED <<a, src, it, refs>>

\* b.copy_from(&a)
CopyFrom ==
    /\ hist = <<"let">>
    /\ heap' = copy_from(heap, b, a)
    /\ hist' = <<"let", "copy_from">>
    /\ out' = Op("copy_from", 1, heap, <<>>, "b")
    /\ UNCHANGED <<a, b, src, it, refs>>

\* One in-place operation on a or on b, once b is a copy of a
Mutate(which, name, idx) ==
    /\ Last(hist) \in {"clone", "copy_from"}
    /\ name \in Mutators => idx = MIN
    /\ heap' = call_mut(heap, Ptr(which), name, idx)
    /\ hist' = Append(hist, "mutate")
    /\ out' = Op("mutate", 1, heap, <<name, idx>>, which)
    /\ UNCHANGED <<a, b, src, it, refs>>

\* drop(a), drop(b) or drop(r): only a value that is bound and not borrowed;
\* while the view is live, the value made through it
DropOwned(which) ==
    /\ Last(hist) \in {"clone", "copy_from", "mutate", "drop", "drop_ref"}
                       \cup ViewOwners
    /\ Last(hist) \in ViewOwners => which = "r"
    /\ Ptr(which) # NULL
    /\ \A r \in refs : r.ptr # Ptr(which)
    /\ heap' = drop(heap, Ptr(which))
    /\ a' = IF which = "a" THEN NULL ELSE a
    /\ b' = IF which = "b" THEN NULL ELSE b
    /\ src' = IF which = "r" THEN NULL ELSE src
    /\ hist' = Append(hist, "drop")
    /\ out' = Op("drop", 1, heap, <<>>, which)
    /\ UNCHANGED <<it, refs>>

\* The binary operators
Operators == {"bitand", "bitor", "bitxor", "sub"}

\* a &= &b, a |= &b, a ^= &b, a -= &b on any pair of bitmaps
OpAssign(name) ==
    /\ hist = <<"let">>
    /\ heap' = op_assign(heap, a, b, name)
    /\ hist' = <<"let", "op_assign">>
    /\ out' = Op("op_assign", 1, heap, <<name>>, "a")
    /\ UNCHANGED <<a, b, src, it, refs>>

\* let r = &a & &b, &a | &b, &a ^ &b, &a - &b on any pair of bitmaps
OpRef(name) ==
    /\ hist = <<"let">>
    /\ LET result == op_ref(heap, a, b, name)
       IN  /\ heap' = result.heap
           /\ src' = result.ptr
    /\ hist' = <<"let", "op">>
    /\ out' = Op("op", 1, heap, <<name>>, "r")
    /\ UNCHANGED <<a, b, it, refs>>

\* let v = BitmapRef::from(&a)
BorrowA ==
    /\ hist = <<"let">>
    /\ refs' = {BitmapRef_from("Bitmap", a)}
    /\ hist' = <<"let", "borrow">>
    /\ out' = Op("borrow", 1, heap, <<>>, "v")
    /\ UNCHANGED <<a, b, src, it, heap>>

\* let v = v.cast::<Other>()
Cast(other) ==
    /\ Last(hist) = "borrow"
    /\ refs' = {cast(v, other) : v \in refs}
    /\ hist' = Append(hist, "cast")
    /\ out' = Op("cast", 1, heap, <<other>>, "v")
    /\ UNCHANGED <<a, b, src, it, heap>>

\* let t = (v == b); v.partial_cmp(&b); v.cmp(&BitmapRef::from(&b));
\* format!("{v}"); format!("{v:?}")
ViewQuery(name) ==
    /\ Last(hist) \in {"borrow", "cast"}
    /\ \E v \in refs :
         out' = Op(name, 1, heap, <<v.target>>,
                   CASE name = "ref_eq" -> BitmapRef_eq(heap, v, b)
                     [] name = "ref_partial_cmp" ->
                            BitmapRef_partial_cmp(heap, v, b)
                     [] name = "ref_cmp" ->
                            BitmapRef_cmp(heap, v, BitmapRef_from(v.target, b))
                     [] name = "ref_fmt" -> BitmapRef_fmt(heap, v)
                     [] name = "ref_debug_fmt" -> BitmapRef_debug_fmt(heap, v))
    /\ hist' = Append(hist, name)
    /\ UNCHANGED <<a, b, src, it, heap, refs>>

\* let r = v.to_owned(); let r = !&v; let r = &v op &b
ViewOwned(name, op) ==
    /\ Last(hist) \in {"borrow", "cast"}
    /\ name = "ref_op" \/ op = "bitand"
    /\ \E v \in refs :
         LET result == CASE name = "ref_to_owned" -> BitmapRef_to_owned(heap, v)
                         [] name = "ref_not" -> BitmapRef_not(heap, v)
                         [] name = "ref_op" -> BitmapRef_op(heap, v, b, op)
         IN  /\ heap' = result.heap
             /\ src' = result.ptr
             /\ out' = Op(name, 1, heap, <<v.target, op>>, "r")
    /\ hist' = Append(hist, name)
    /\ UNCHANGED <<a, b, it, refs>>

\* let it = v.into_iter(): the view moves into the iterator
ViewIntoIter ==
    /\ Last(hist) \in {"borrow", "cast"}
    /\ \E v \in refs : it' = BitmapRef_into_iter(v)
    /\ refs' = {}
    /\ hist' = Append(hist, "ref_into_iter")
    /\ out' = Op("ref_into_iter", 1, heap, <<>>, "it")
    /\ UNCHANGED <<a, b, src, heap>>

\* let t = it.next(), then drop(it)
ViewIterNext ==
    \/ /\ Last(hist) = "ref_into_iter"
       /\ LET n == BitmapRef_iter_next(heap, it)
          IN  out' = Op("ref_iter_next", 1, heap, <<>>, n)
       /\ heap' = access(heap, as_ref(it.bitmap))
       /\ hist' = Append(hist, "ref_iter_next")
       /\ UNCHANGED <<a, b, src, it, refs>>
    \/ /\ Last(hist) = "ref_iter_next"
       /\ it' = NoIter
       /\ heap' = BitmapRef_drop(heap, it.bitmap)
       /\ hist' = <<"let", "drop_ref">>
       /\ out' = Op("drop_ref", 1, heap, <<>>, "it")
       /\ UNCHANGED <<a, b, src, refs>>

\* drop(v)
DropRef ==
    /\ Last(hist) \in {"borrow", "cast"} \cup ViewQueries
    /\ \E v \in refs :
         /\ heap' = BitmapRef_drop(heap, v)
         /\ refs' = refs \ {v}
    /\ hist' = <<"let", "drop_ref">>
    /\ out' = Op("drop_ref", 1, heap, <<>>, "v")
    /\ UNCHANGED <<a, b, src, it>>

NextHeap ==
    \/ Clone
    \/ \E x \in AllBitmaps : Let(x)
    \/ CopyFrom
    \/ \E which \in {"a", "b"}, name \in Mutators \cup IndexMutators,
          idx \in BitmapIndex : Mutate(which, name, idx)
    \/ \E which \in {"a", "b", "r"} : DropOwned(which)
    \/ \E name \in Operators : OpAssign(name)
    \/ \E name \in Operators : OpRef(name)
    \/ BorrowA
    \/ \E other \in Newtypes : Cast(other)
    \/ \E name \in ViewQueries : ViewQuery(name)
    \/ \E name \in ViewOwners, op \in Operators : ViewOwned(name, op)
    \/ ViewIntoIter
    \/ ViewIterNext
    \/ DropRef

SpecHeap == InitHeap /\ [][NextHeap]_vars

\* What every query tells about a bitmap
Queries(bm) ==
    [is_empty |-> is_empty(bm), is_full |-> is_full(bm),
     first_set |-> first_set(bm), first_unset |-> first_unset(bm),
     last_set |-> last_set(bm), last_unset |-> last_unset(bm),
     weight |-> weight(bm), text |-> fmt(bm), inverse |-> not(bm),
     members |-> {i \in BitmapIndex : is_set(bm, i)},
     set_items |-> {i \in BitmapIndex : next_set(bm, Some(i)) = Some(i + 1)},
     order |-> {x \in AllBitmaps : cmp(bm, x) = Less}]

\* The value the last operation did not act on
Other == IF out.t = "a" THEN b ELSE a

\* C21: after b = a.clone() or b.copy_from(&a), b equals a and every query
\* answers the same on both, a is as it was, and a later in-place operation
\* on, or the drop of, either of them leaves the other as it was
C21_CopyIndependent ==
    /\ Last(hist) \in {"clone", "copy_from"} =>
          /\ a # b
          /\ eq(heap[b].val, heap[a].val)
          /\ Queries(heap[b].val) = Queries(heap[a].val)
          /\ heap[a] = out.a0[a]
    /\ (Last(hist) \in {"mutate", "drop"} /\ Other # NULL) =>
          heap[Other] = out.a0[Other]

\* a and b hold the same set with indices in it, then one of them was
\* changed by an in-place operation and differs from the other
C21_Witness ==
    /\ Last(hist) = "mutate"
    /\ out.a0[a].val = out.a0[b].val
    /\ out.a0[a].val.ulongs # {}
    /\ heap[a].val # heap[b].val

\* C22: a op= &b leaves in a a value equal to the one &a op &b returns for
\* the same operands and leaves b as it was; &a op &b returns a value that
\* owns storage of its own and leaves a and b as they were
C22_AssignAgrees ==
    /\ Last(hist) = "op_assign" =>
          LET result == op_ref(out.a0, a, b, out.r[1])
          IN  /\ eq(heap[a].val, result.heap[result.ptr].val)
              /\ heap[b] = out.a0[b]
    /\ Last(hist) = "op" =>
          /\ src \notin {NULL, a, b}
          /\ src \notin DOMAIN out.a0
          /\ heap[src].freed = 0
          /\ heap[a] = out.a0[a]
          /\ heap[b] = out.a0[b]

\* a |= &b or a ^= &b changed a, for overlapping operands that differ
C22_Witness ==
    /\ Last(hist) = "op_assign"
    /\ out.r[1] \in {"bitor", "bitxor"}
    /\ heap[a].val # out.a0[a].val
    /\ intersects(out.a0[a].val, heap[b].val)
    /\ heap[b].val # out.a0[a].val

\* What the operation gives on owned values of the type target that hold
\* the sets x and y
OnOwned(name, target, x, y) ==
    IF target = "Bitmap"
    THEN CASE name = "ref_eq" -> eq(x, y)
           [] name = "ref_partial_cmp" -> partial_cmp(x, y)
           [] name = "ref_cmp" -> cmp(x, y)
           [] name = "ref_fmt" -> fmt(x)
           [] name = "ref_debug_fmt" -> debug_fmt(x)
    ELSE LET wx == newtype_from(target, x)
             wy == newtype_from(target, y)
         IN  CASE name = "ref_eq" -> newtype_eq(wx, wy).ret.val
               [] name = "ref_partial_cmp" -> newtype_partial_cmp(wx, wy).ret.val
               [] name = "ref_cmp" -> newtype_cmp(wx, wy).ret.val
               [] name = "ref_fmt" -> newtype_fmt(wx)
               [] name = "ref_debug_fmt" -> newtype_debug_fmt(wx)

\* C23: ==, partial_cmp, cmp, Display and Debug through a view of a give
\* what they give on an owned value of the view's type holding the set of
\* a, and these and to_owned, ! and the binary operators through the view
\* leave a (and the other operand) as they were
C23_ViewAgrees ==
    /\ Last(hist) \in ViewQueries =>
          /\ out.t = OnOwned(out.op, out.r[1], heap[a].val, heap[b].val)
          /\ heap = out.a0
    /\ Last(hist) \in ViewOwners =>
          /\ heap[a] = out.a0[a]
          /\ heap[b] = out.a0[b]
          /\ heap[src].val =
                CASE out.op = "ref_to_owned" -> heap[a].val
                  [] out.op = "ref_not" -> not(heap[a].val)
                  [] out.op = "ref_op" ->
                        op_ref(out.a0, a, b, out.r[2]).heap[src].val

\* A view of a bitmap that orders after the other one was compared to it
C23_Witness ==
    /\ Last(hist) = "ref_cmp"
    /\ out.r[1] = "Bitmap"
    /\ out.t = Greater
    /\ heap[a].val.ulongs # {}

\* The owned values that are bound
Owners == {a, b, src} \ {NULL}

\* C24: an allocation is released once, when the value that owns it is
\* dropped, and never reached afterwards; borrowing, casting, querying,
\* iterating, converting (to_owned) and dropping a view release nothing, and
\* the value to_owned or an operator makes from a view owns an allocation of
\* its own
C24_ReleasedOnce ==
    /\ \A p \in DOMAIN heap :
          /\ heap[p].freed <= 1
          /\ heap[p].stale = 0
          /\ heap[p].freed = 1 <=> p \notin Owners
    /\ a # NULL /\ b # NULL => a # b
    /\ src # NULL => src \notin {a, b}
    /\ Last(hist) \in {"borrow", "cast", "drop_ref", "ref_into_iter",
                       "ref_iter_next"} \cup ViewQueries \cup ViewOwners =>
          \A p \in DOMAIN out.a0 : heap[p].freed = out.a0[p].freed
    /\ Last(hist) \in ViewOwners => src \notin DOMAIN out.a0

\* The value to_owned made from a view was dropped while the view is live
C24_Witness ==
    /\ Len(hist) >= 2
    /\ hist[Len(hist) - 1] = "ref_to_owned"
    /\ Last(hist) = "drop"
    /\ refs # {}
    /\ \E v \in refs : heap[v.ptr].freed = 0 /\ heap[v.ptr].val.ulongs # {}
    /\ \E p \in DOMAIN heap : heap[p].freed = 1

\* ---------------------------------------------------------------------
\* SpecNewtype: the methods and operators of CpuSet and NodeSet
\* ---------------------------------------------------------------------

\* The methods of $newtype, by name, on the wrapper self
newtype_call(name, self, arg) ==
    CASE name = "new" -> Call(self, Returned(newtype_new(self.newtype)))
      [] name = "full" -> Call(self, Returned(newtype_full(self.newtype)))
      [] name = "from_range" -> Call(self, newtype_from_range(self.newtype, arg))
      [] name = "clear" -> newtype_clear(self)
      [] name = "fill" -> newtype_fill(self)
      [] name = "singlify" -> newtype_singlify(self)
      [] name = "invert" -> newtype_invert(self)
      [] name = "is_empty" -> newtype_is_empty(self)
      [] name = "is_full" -> newtype_is_full(self)
      [] name = "first_set" -> newtype_first_set(self)
      [] name = "last_set" -> newtype_last_set(self)
      [] name = "weight" -> newtype_weight(self)
      [] name = "first_unset" -> newtype_first_unset(self)
      [] name = "last_unset" -> newtype_last_unset(self)
      [] name = "iter_set" -> newtype_iter_set(self)
      [] name = "iter_unset" -> newtype_iter_unset(self)
      [] name = "set_only" -> newtype_set_only(self, arg)
      [] name = "set_all_but" -> newtype_set_all_but(self, arg)
      [] name = "set" -> newtype_set(self, arg)
      [] name = "unset" -> newtype_unset(self, arg)
      [] name = "is_set" -> newtype_is_set(self, arg)
      [] name = "set_range" -> newtype_set_range(self, arg)
      [] name = "unset_range" -> newtype_unset_range(self, arg)
      [] name = "not" -> newtype_not(self)
      [] name = "clone" -> newtype_clone(self)
      [] name = "copy_from" -> newtype_copy_from(self, arg)
      [] name = "intersects" -> newtype_intersects(self, arg)
      [] name = "includes" -> newtype_includes(self, arg)
      [] name = "eq" -> newtype_eq(self, arg)
      [] name = "partial_cmp" -> newtype_partial_cmp(self, arg)
      [] name = "cmp" -> newtype_cmp(self, arg)
      [] name = "bitand" -> newtype_bitand(self, arg)
      [] name = "bitand_assign" -> newtype_bitand_assign(self, arg)
      [] name = "bitor" -> newtype_bitor(self, arg)
      [] name = "bitor_assign" -> newtype_bitor_assign(self, arg)
      [] name = "bitxor" -> newtype_bitxor(self, arg)
      [] name = "bitxor_assign" -> newtype_bitxor_assign(self, arg)
      [] name = "sub" -> newtype_sub(self, arg)
      [] name = "sub_assign" -> newtype_sub_assign(self, arg)

\* The methods without argument, with an index, with a range and with
\* another value of the type; the constructors
NullaryMethods ==
    {"clear", "fill", "singlify", "invert", "is_empty", "is_full", "first_set", "last_set", "weight"} \cup
    {"first_unset", "last_unset", "iter_set", "iter_unset", "not", "clone"}
IndexMethods == {"set_only", "set_all_but", "set", "unset", "is_set"}
RangeMethods == {"set_range", "unset_range"}
BinaryMethods ==
    {"copy_from", "intersects", "includes", "eq", "partial_cmp", "cmp"} \cup
    {"bitand", "bitor", "bitxor", "sub"} \cup
    {"bitand_assign", "bitor_assign", "bitxor_assign", "sub_assign"}
Constructors == {"new", "full"}

\* The wrappers of either type around any bitmap
AllNewtypes == {newtype_from(n, x) : n \in Newtypes, x \in AllBitmaps}

InitNewtype ==
    /\ a \in AllNewtypes
    /\ b \in AllNewtypes
    /\ src = <<>>
    /\ out = Op("new", 0, a, new, FALSE)
    /\ it = NoIter
    /\ hist = <<>>
    /\ heap = <<>>
    /\ refs = {}

\* One call on a: a becomes what the call made of it, out keeps what it
\* returned and src the argument
NewtypeCall(name, arg) ==
    /\ out.op = "new"
    /\ LET c == newtype_call(name, a, arg)
       IN  /\ a' = c.self
           /\ out' = Op(name, 1, a, new, c.ret)
    /\ src' = arg
    /\ UNCHANGED <<b, it, hist, heap, refs>>

\* $newtype::new(), $newtype::full(), a.clear(), a.weight(), !&a, ...
NewtypeNullary(name) ==
    /\ out.op = "new"
    /\ b = newtype_new(a.newtype)
    /\ NewtypeCall(name, <<>>)

\* a.set(idx), a.unset(idx), a.set_only(idx), a.set_all_but(idx), a.is_set(idx)
NewtypeIndex(name, idx) ==
    /\ out.op = "new"
    /\ b = newtype_new(a.newtype)
    /\ NewtypeCall(name, idx)

\* $newtype::from_range(range), a.set_range(range), a.unset_range(range)
NewtypeRange(name, range) ==
    /\ out.op = "new"
    /\ b = newtype_new(a.newtype)
    /\ NewtypeCall(name, range)

\* a.copy_from(&b), a.includes(&b), a == b, &a | &b, a ^= &b, ...: only for
\* b of a type that is Borrow<type of a>
NewtypeBinary(name) ==
    /\ out.op = "new"
    /\ Borrow(a.newtype, b.newtype)
    /\ NewtypeCall(name, b)

\* let t = format!("{a}"); then let t = format!("{a:?}")
NewtypeFormat ==
    \/ /\ out.op = "new"
       /\ b = newtype_new(a.newtype)
       /\ out' = Op("fmt", 1, a, new, newtype_fmt(a))
       /\ UNCHANGED <<a, b, src, it, hist, heap, refs>>
    \/ /\ out.op = "fmt"
       /\ out' = Op("debug_fmt", 1, a, new, newtype_debug_fmt(a))
       /\ UNCHANGED <<a, b, src, it, hist, heap, refs>>

NextNewtype ==
    \/ \E name \in NullaryMethods \cup Constructors : NewtypeNullary(name)
    \/ \E name \in IndexMethods, idx \in IdxValues : NewtypeIndex(name, idx)
    \/ \E name \in RangeMethods \cup {"from_range"}, range \in Ranges :
          NewtypeRange(name, range)
    \/ \E name \in BinaryMethods : NewtypeBinary(name)
    \/ NewtypeFormat

SpecNewtype == InitNewtype /\ [][NextNewtype]_vars

\* The methods of Bitmap, by name, on the bitmap self
Bitmap_call(name, self, arg) ==
    CASE name = "new" -> Call(self, Returned(new))
      [] name = "full" -> Call(self, Returned(full))
      [] name = "from_range" -> Call(self, from_range(arg))
      [] name = "clear" -> Call(clear(self), Returned(Unit))
      [] name = "fill" -> Call(fill(self), Returned(Unit))
      [] name = "singlify" -> Call(singlify(self), Returned(Unit))
      [] name = "invert" -> Call(invert(self), Returned(Unit))
      [] name = "is_empty" -> Call(self, Returned(is_empty(self)))
      [] name = "is_full" -> Call(self, Returned(is_full(self)))
      [] name = "first_set" ->
                LET r == first_set(self)
                IN  Call(self, IF r = Panic THEN Panic ELSE Returned(r))
      [] name = "last_set" ->
                LET r == last_set(self)
                IN  Call(self, IF r = Panic THEN Panic ELSE Returned(r))
      [] name = "weight" ->
                LET r == weight(self)
                IN  Call(self, IF r = Panic THEN Panic ELSE Returned(r))
      [] name = "first_unset" ->
                LET r == first_unset(self)
                IN  Call(self, IF r = Panic THEN Panic ELSE Returned(r))
      [] name = "last_unset" ->
                LET r == last_unset(self)
                IN  Call(self, IF r = Panic THEN Panic ELSE Returned(r))
      [] name = "iter_set" -> Call(self, Returned(iter_set(self)))
      [] name = "iter_unset" -> Call(self, Returned(iter_unset(self)))
      [] name = "set_only" -> Bitmap_set_only(self, arg)
      [] name = "set_all_but" -> Bitmap_set_all_but(self, arg)
      [] name = "set" -> Bitmap_set(self, arg)
      [] name = "unset" -> Bitmap_unset(self, arg)
      [] name = "is_set" -> Bitmap_is_set(self, arg)
      [] name = "set_range" -> Bitmap_set_range(self, arg)
      [] name = "unset_range" -> Bitmap_unset_range(self, arg)
      [] name = "not" -> Call(self, Returned(not(self)))
      [] name = "clone" ->
                LET c == clone(<<Cell(self)>>, 1)
                IN  Call(self, Returned(c.heap[c.ptr].val))
      [] name = "copy_from" ->
                Call(copy_from(<<Cell(self), Cell(arg)>>, 1, 2)[1].val,
                     Returned(Unit))
      [] name = "intersects" -> Call(self, Returned(intersects(self, arg)))
      [] name = "includes" -> Call(self, Returned(includes(self, arg)))
      [] name = "eq" -> Call(self, Returned(eq(self, arg)))
      [] name = "partial_cmp" -> Call(self, Returned(partial_cmp(self, arg)))
      [] name = "cmp" -> Call(self, Returned(cmp(self, arg)))
      [] name = "bitand" -> Call(self, Returned(bitand(self, arg)))
      [] name = "bitand_assign" -> Call(bitand_assign(self, arg), Returned(Unit))
      [] name = "bitor" -> Call(self, Returned(bitor(self, arg)))
      [] name = "bitor_assign" -> Call(bitor_assign(self, arg), Returned(Unit))
      [] name = "bitxor" -> Call(self, Returned(bitxor(self, arg)))
      [] name = "bitxor_assign" -> Call(bitxor_assign(self, arg), Returned(Unit))
      [] name = "sub" -> Call(self, Returned(sub(self, arg)))
      [] name = "sub_assign" -> Call(sub_assign(self, arg), Returned(Unit))

\* The methods that return a value of the type of self
ReturnsSelf ==
    {"new", "full", "from_range", "not", "clone"} \cup
    {"bitand", "bitor", "bitxor", "sub"}

\* C25: every constructor, in-place operation, query and operator of CpuSet
\* and NodeSet returns what the method of Bitmap with the same name returns
\* on the wrapped bitmap (wrapped again where it is a bitmap), panics when
\* that one panics, and leaves the wrapper around the bitmap that one leaves;
\* an operation on two wrappers ran only on two wrappers of the same type
C25_NewtypeForwards ==
    out.op \notin {"new", "fmt", "debug_fmt"} =>
        LET plain == Bitmap_call(out.op, out.a0.bitmap,
                                 IF out.op \in BinaryMethods THEN src.bitmap
                                 ELSE src)
        IN  /\ a = newtype_from(out.a0.newtype, plain.self)
            /\ out.t.tag = plain.ret.tag
            /\ out.t.tag = "Returned" =>
                  IF out.op \in ReturnsSelf
                  THEN out.t.val = newtype_from(out.a0.newtype, plain.ret.val)
                  ELSE out.t.val = plain.ret.val
            /\ out.op \in BinaryMethods =>
                  src = b /\ b.newtype = out.a0.newtype

\* a.clear() emptied a NodeSet that held indices
C25_Witness ==
    /\ out.op = "clear"
    /\ out.a0.newtype = "NodeSet"
    /\ out.a0.bitmap.ulongs # {}
    /\ a.bitmap = new

\* C26 as stated: the rendering of a wrapper is the canonical rendering of
\* the set it wraps and nothing else, the text the plain bitmap holding the
\* same set renders to
C26_SameText ==
    out.op \in {"fmt", "debug_fmt"} =>
        /\ out.t = CommaSeparated(MaximalRuns(a.bitmap))
        /\ out.t = fmt(a.bitmap)

\* C26, amended: the rendering of a wrapper is the name of its type followed,
\* between parentheses, by the canonical rendering of the set it wraps, which
\* is the text the plain bitmap holding the same set renders to
C26_NamedText ==
    out.op \in {"fmt", "debug_fmt"} =>
        /\ out.t = a.newtype \o "(" \o CommaSeparated(MaximalRuns(a.bitmap))
                             \o ")"
        /\ out.t = a.newtype \o "(" \o fmt(a.bitmap) \o ")"
        /\ out.t # fmt(a.bitmap)

\* A CpuSet holding a run of several indices and a lone index was rendered
C26_Witness ==
    /\ out.op = "fmt"
    /\ a.newtype = "CpuSet"
    /\ Cardinality(MaximalRuns(a.bitmap)) = 2
    /\ \E r \in MaximalRuns(a.bitmap) : r[1] < r[2] /\ r[2] <= MAX

\* ---------------------------------------------------------------------
\* SpecArbitrary: the generator and the shrinker of arbitrary bitmaps
\* ---------------------------------------------------------------------

\* arbitrary() that never extends the finite bitmap
arbitrary_unextended(items, coin) == Returned(from_iter(items))

\* Arbitrary::arbitrary: items is the HashSet<BitmapIndex> in the order it
\* is iterated, coin is bool::arbitrary(g)
arbitrary(items, coin) ==
    LET result == from_iter(items)
    IN  IF coin
        THEN LET l == last_set(result)
                 last == IF l = None THEN MIN ELSE l.val
             IN  IF l = Panic THEN Panic
                 ELSE set_range(result, [start |-> Included(last),
                                         end |-> Unbounded])
        ELSE Returned(result)

\* iter.collect::<Vec<_>>(): the items until the first None; a panic of
\* next() unwinds out of it
RECURSIVE collect(_)
collect(iter) ==
    LET item == BitmapIterator_next(iter)
    IN  IF item = Panic THEN Panic
        ELSE IF item = None THEN Returned(<<>>)
        ELSE LET rest == collect(BitmapIterator_after(iter))
             IN  IF rest = Panic THEN Panic
                 ELSE Returned(<<item.val>> \o rest.val)

\* The vectors the shrinker of Vec<BitmapIndex> proposes: vectors with
\* fewer items or smaller items
vec_shrink(vec) ==
    {v \in UNION {[1..n -> BitmapIndex] : n \in 0..Len(vec)} :
        /\ v # vec
        /\ \E f \in [1..Len(v) -> 1..Len(vec)] :
              /\ \A i, j \in 1..Len(v) : i < j => f[i] < f[j]
              /\ \A i \in 1..Len(v) : v[i] <= vec[f[i]]}

\* shrink() that hands the bitmap over with its infinite part
shrink_untrimmed(self) ==
    [local |-> self, vec |-> Returned(<<>>), shrunk |-> {}]

\* Arbitrary::shrink: the bitmap local that is iterated, the vector handed
\* to the shrinker of Vec and the bitmaps collected from what it proposes
shrink(self) ==
    LET local == clone(<<Cell(self)>>, 1).heap[2].val
        w == weight(local)
        lu == last_unset(self)
        trimmed == IF w = None
                   THEN unset_range(local,
                            [start |-> Included(IF lu = None THEN MIN
                                                ELSE lu.val),
                             end |-> Unbounded])
                   ELSE Returned(local)
        vec == IF trimmed = Panic THEN Panic
               ELSE collect(into_iter(trimmed.val))
    IN  IF w = Panic \/ (w = None /\ lu = Panic) \/ vec = Panic
        THEN [local |-> self, vec |-> Panic, shrunk |-> {}]
        ELSE [local |-> trimmed.val, vec |-> vec,
              shrunk |-> {from_iter(v) : v \in vec_shrink(vec.val)}]

\* The orders in which a HashSet<BitmapIndex> is iterated: the index
\* collections without duplicates
HashSets ==
    {s \in IndexIters : \A i, j \in 1..Len(s) : i # j => s[i] # s[j]}

\* Any bitmap may be shrunk; none has been generated yet
InitArbitrary ==
    /\ a \in AllBitmaps
    /\ b = new
    /\ src = <<>>
    /\ out = Op("new", 0, a, new, FALSE)
    /\ it = NoIter
    /\ hist = <<>>
    /\ heap = <<>>
    /\ refs = {}

\* let a = Bitmap::arbitrary(g); out.t keeps the coin flip
Arbitrary(items, coin) ==
    /\ out.op = "new"
    /\ a = new
    /\ LET r == arbitrary(items, coin)
       IN  /\ r # Panic
           /\ a' = r.val
    /\ src' = items
    /\ out' = Op("arbitrary", 1, a, new, coin)
    /\ UNCHANGED <<b, it, hist, heap, refs>>

\* let candidates = a.shrink(); it keeps what shrink computed, out.t tells
\* that it panicked
Shrink ==
    /\ out.op \in {"new", "arbitrary"}
    /\ LET s == shrink(a)
       IN  /\ it' = s
           /\ out' = Op("shrink", 1, a, s.local, s.vec = Panic)
    /\ UNCHANGED <<a, b, src, hist, heap, refs>>

NextArbitrary ==
    \/ \E items \in HashSets, coin \in BOOLEAN : Arbitrary(items, coin)
    \/ Shrink

SpecArbitrary == InitArbitrary /\ [][NextArbitrary]_vars

\* C27: the generated bitmap holds the indices of the finite set and, when
\* the coin flip was true, every index from the last one of them (from 0
\* for the empty set) on; the indices below that are as in the finite set,
\* the bitmap is infinite exactly when the coin flip was true, and the empty
\* set extended is the full bitmap
C27_ArbitraryExtends ==
    out.op = "arbitrary" =>
        LET finite == Range(src)
            from == IF finite = {} THEN MIN ELSE SetMax(finite)
        IN  /\ out.t =>
                 /\ \A i \in BitmapIndex :
                       is_set(a, i) <=> (i \in finite \/ i >= from)
                 /\ \A i \in BitmapIndex : i < from =>
                       (is_set(a, i) <=> i \in finite)
                 /\ finite = {} => is_full(a)
            /\ ~out.t => \A i \in BitmapIndex : is_set(a, i) <=> i \in finite
            /\ a.infinite <=> out.t
            /\ weight(a) = None <=> out.t

\* A finite set with a hole below its last index, which is below MAX, was
\* extended
C27_Witness ==
    /\ out.op = "arbitrary"
    /\ out.t
    /\ Range(src) # {}
    /\ SetMax(Range(src)) < MAX
    /\ \E i \in BitmapIndex : i < SetMax(Range(src)) /\ ~is_set(a, i)
    /\ is_set(a, MAX)
    /\ a.infinite

\* C28: shrink() of a bitmap with an infinite tail removes the indices above
\* the last unset index (every index of the full bitmap) and keeps the set
\* indices below it; a finite bitmap is handed over as it is; the vector
\* handed to the shrinker holds the set indices of that finite bitmap and
\* every candidate is a finite bitmap
C28_ShrinkTrims ==
    out.op = "shrink" =>
        LET self == out.a0
            unset_idx == BitmapIndex \ self.ulongs
            cut == IF unset_idx = {} THEN MIN - 1 ELSE SetMax(unset_idx)
        IN  /\ ~out.t
            /\ ~out.r.infinite
            /\ self.infinite =>
                  out.r.ulongs = {i \in self.ulongs : i < cut}
            /\ ~self.infinite => out.r = self
            /\ Range(it.vec.val) = out.r.ulongs
            /\ \A c \in it.shrunk : ~c.infinite /\ weight(c) # None

\* ---------------------------------------------------------------------
\* SpecIndex: the operations that take an index, given any value
\* ---------------------------------------------------------------------

InitIndex ==
    /\ a \in AllBitmaps
    /\ b = new
    /\ src = <<>>
    /\ out = Op("new", 0, a, new, Returned(Unit))
    /\ it = NoIter
    /\ hist = <<>>
    /\ heap = <<>>
    /\ refs = {}

\* a.set(idx), a.unset(idx), a.set_only(idx), a.set_all_but(idx),
\* a.is_set(idx) for idx of any integer type: a becomes what the call made
\* of it, out.t is what it returned or Panic
IndexCall(name, idx) ==
    /\ out.op = "new"
    /\ LET c == Bitmap_call(name, a, idx)
       IN  /\ a' = c.self
           /\ out' = Op(name, 1, a, new, c.ret)
    /\ src' = idx
    /\ UNCHANGED <<b, it, hist, heap, refs>>

NextIndex == \E name \in IndexMethods, idx \in IdxValues : IndexCall(name, idx)

SpecIndex == InitIndex /\ [][NextIndex]_vars

\* C29: set, unset, set_only, set_all_but and is_set given a value that is
\* not a valid index panic and leave the bitmap as it was before the call
C29_PanicsUntouched ==
    (out.op \in IndexMethods /\ src \notin BitmapIndex) =>
        /\ out.t = Panic
        /\ a = out.a0

\* set_only was given the value after MAX on a bitmap that holds several
\* indices
C29_Witness ==
    /\ out.op = "set_only"
    /\ src = MAX + 1
    /\ Cardinality(out.a0.ulongs) > 1
    /\ out.t = Panic

\* ---------------------------------------------------------------------
\* TopologyBuilder (src/src/builder.rs): the owner of a raw topology
\* ---------------------------------------------------------------------

\* A Rust value and the raw topology it owns (NULL: it owns none)
Value(type, ptr) == [type |-> type, ptr |-> ptr]

\* What a call returned and what it made of the storage
Outcome(h, ret) == [heap |-> h, ret |-> ret]

\* A topology as hwloc_topology_init leaves it
hwloc_topology_init ==
    [loaded |-> FALSE, flags |-> {}, source |-> "default", blacklist |-> FALSE]

\* The topology at ptr is released
hwloc_topology_destroy(h, ptr) == [h EXCEPT ![ptr].freed = @ + 1]

\* The topology at ptr is loaded when result is 0
hwloc_topology_load(h, ptr, result) ==
    IF result = 0 THEN [access(h, ptr) EXCEPT ![ptr].val.loaded = TRUE]
    ELSE access(h, ptr)

\* hwloc_topology_set_pid / _set_synthetic / _set_xmlbuffer / _set_xml: the
\* topology at ptr takes the discovery source when result is 0
hwloc_topology_set_source(h, ptr, source, result) ==
    IF result = 0 THEN [access(h, ptr) EXCEPT ![ptr].val.source = source]
    ELSE access(h, ptr)

\* The topology at ptr takes the blacklisted component when result is 0
hwloc_topology_set_components(h, ptr, result) ==
    IF result = 0 THEN [access(h, ptr) EXCEPT ![ptr].val.blacklist = TRUE]
    ELSE access(h, ptr)

\* The topology at ptr takes the flags when result is 0
hwloc_topology_set_flags(h, ptr, flags, result) ==
    IF result = 0 THEN [access(h, ptr) EXCEPT ![ptr].val.flags = flags]
    ELSE access(h, ptr)

\* Drop for TopologyBuilder: hwloc_topology_destroy(self.as_mut_ptr())
TopologyBuilder_drop(h, self) == hwloc_topology_destroy(h, self.ptr)

\* Drop for Topology: the topology is destroyed
Topology_drop(h, self) == hwloc_topology_destroy(h, self.ptr)

\* A panic inside a method that took self by value: unwinding drops self
unwind(h, self) == Outcome(TopologyBuilder_drop(h, self), Value("Panic", NULL))

\* TopologyBuilder::new(): the two assertions on result, then
\* Self(NonNull::new(topology).expect(..)); no topology exists when
\* hwloc_topology_init did not return 0
TopologyBuilder_new(h, result) ==
    IF result # 0 THEN Outcome(h, Value("Panic", NULL))
    ELSE Outcome(malloc(h, hwloc_topology_init),
                 Value("TopologyBuilder", Len(h) + 1))

\* build() without std::mem::forget(self)
build_unforgotten(h, self, result) ==
    LET loaded == hwloc_topology_load(h, self.ptr, result)
    IN  IF result \notin {0, -1} THEN unwind(loaded, self)
        ELSE IF result = 0
        THEN Outcome(TopologyBuilder_drop(loaded, self),
                     Value("Topology", self.ptr))
        ELSE Outcome(TopologyBuilder_drop(loaded, self), Value("Errno", NULL))

\* build(): hwloc_topology_load, assert!(result == 0 || result == -1); on 0
\* Topology(self.0) and std::mem::forget(self), else Err(errno()) and self
\* is dropped at the end of the call
build(h, self, result) ==
    LET loaded == hwloc_topology_load(h, self.ptr, result)
    IN  IF result \notin {0, -1} THEN unwind(loaded, self)
        ELSE IF result = 0 THEN Outcome(loaded, Value("Topology", self.ptr))
        ELSE Outcome(TopologyBuilder_drop(loaded, self), Value("Errno", NULL))

\* match result { 0 => Ok(self), -1 => match errno { expected =>
\* Err(error(self)), _ => panic!(..) }, other => panic!(..) }
match_result(h, self, result, errno, expected, error) ==
    IF result = 0 THEN Outcome(h, self)
    ELSE IF result = -1 /\ errno = expected
    THEN Outcome(h, Value(error, self.ptr))
    ELSE unwind(h, self)

\* from_pid(): hwloc_topology_set_pid, ENOSYS => Err(Unsupported(self))
from_pid(h, self, result, errno) ==
    match_result(hwloc_topology_set_source(h, self.ptr, "pid", result),
                 self, result, errno, "ENOSYS", "Unsupported")

\* from_synthetic(), from_xml(), from_xml_file(): Err(InvalidParameter(self))
\* when the text cannot be made a C string, before any call of hwloc; then
\* hwloc_topology_set_synthetic / _set_xmlbuffer / _set_xml,
\* EINVAL => Err(InvalidParameter(self))
from_text(h, self, source, c_string, result, errno) ==
    IF ~c_string THEN Outcome(h, Value("InvalidParameter", self.ptr))
    ELSE match_result(hwloc_topology_set_source(h, self.ptr, source, result),
                      self, result, errno, "EINVAL", "InvalidParameter")

\* blacklist_component(): Err(InvalidParameter(self)) when the name cannot
\* be made a C string; hwloc_topology_set_components, assert!(result >= 0),
\* Ok(self)
blacklist_component(h, self, c_string, result) ==
    IF ~c_string THEN Outcome(h, Value("InvalidParameter", self.ptr))
    ELSE LET changed == hwloc_topology_set_components(h, self.ptr, result)
         IN  IF result < 0 THEN unwind(changed, self)
             ELSE Outcome(changed, self)

\* with_flags(): hwloc_topology_set_flags, EINVAL => Err(InvalidParameter(self))
with_flags(h, self, flags, result, errno) ==
    match_result(hwloc_topology_set_flags(h, self.ptr, flags, result),
                 self, result, errno, "EINVAL", "InvalidParameter")

\* flags(): hwloc_topology_get_flags(self.as_ptr())
flags(h, self) == Outcome(access(h, self.ptr), h[self.ptr].val.flags)

\* The value that goes out of scope: the destructor of its type runs, the
\* one of the builder for an error that carries it
drop_value(h, self) ==
    IF self.type \in {"TopologyBuilder", "InvalidParameter", "Unsupported"}
    THEN TopologyBuilder_drop(h, self)
    ELSE IF self.type = "Topology" THEN Topology_drop(h, self)
    ELSE h

\* ---------------------------------------------------------------------
\* SpecBuilder: one raw topology from TopologyBuilder::new() to its end
\* ---------------------------------------------------------------------

\* What hwloc returns, and the errno it leaves
Results == {-1, 0, 1}
Errnos == {"EINVAL", "ENOSYS", "EIO"}

\* Two of the BuildFlags
BuildFlags == SUBSET {"INCLUDE_DISALLOWED", "ASSUME_THIS_SYSTEM"}

\* The discovery sources set from a text
TextSources == {"synthetic", "xml", "xml_file"}

\* Nothing is bound: a is the value that owns the topology, once there is one
InitBuilder ==
    /\ a = Value("none", NULL)
    /\ b = new
    /\ src = <<>>
    /\ out = Op("none", 0, <<>>, new, "none")
    /\ it = NoIter
    /\ hist = <<>>
    /\ heap = <<>>
    /\ refs = {}

\* The outcome o of the call name: a is bound to what it returned
Bind(name, o) ==
    /\ a' = o.ret
    /\ heap' = o.heap
    /\ out' = Op(name, 1, heap, a, o.ret.type)
    /\ UNCHANGED <<b, src, it, hist, refs>>

\* let a = TopologyBuilder::new()
New(result) ==
    /\ a.type = "none"
    /\ out.op = "none"
    /\ Bind("new", TopologyBuilder_new(heap, result))

\* let a = a.from_pid(pid)
FromPid(result, errno) ==
    /\ a.type = "TopologyBuilder"
    /\ Bind("from_pid", from_pid(heap, a, result, errno))

\* let a = a.from_synthetic(..), a.from_xml(..), a.from_xml_file(..)
FromText(source, c_string, result, errno) ==
    /\ a.type = "TopologyBuilder"
    /\ Bind("from_" \o source,
            from_text(heap, a, source, c_string, result, errno))

\* let a = a.blacklist_component(name)
BlacklistComponent(c_string, result) ==
    /\ a.type = "TopologyBuilder"
    /\ Bind("blacklist_component", blacklist_component(heap, a, c_string, result))

\* let a = a.with_flags(flags)
WithFlags(fl, result, errno) ==
    /\ a.type = "TopologyBuilder"
    /\ Bind("with_flags", with_flags(heap, a, fl, result, errno))

\* a.flags() on the builder
Flags ==
    /\ a.type = "TopologyBuilder"
    /\ out.op # "flags"
    /\ LET o == flags(heap, a)
       IN  /\ heap' = o.heap
           /\ out' = Op("flags", 1, heap, a, "TopologyBuilder")
    /\ UNCHANGED <<a, b, src, it, hist, refs>>

\* let a = a.build()
Build(result) ==
    /\ a.type = "TopologyBuilder"
    /\ Bind("build", build(heap, a, result))

\* a goes out of scope
DropValue ==
    /\ a.type \in {"TopologyBuilder", "Topology", "InvalidParameter",
                   "Unsupported"}
    /\ a' = Value("dropped", NULL)
    /\ heap' = drop_value(heap, a)
    /\ out' = Op("drop", 1, heap, a, "dropped")
    /\ UNCHANGED <<b, src, it, hist, refs>>

NextBuilder ==
    \/ \E result \in Results : New(result)
    \/ \E result \in Results, errno \in Errnos : FromPid(result, errno)
    \/ \E source \in TextSources, c_string \in BOOLEAN, result \in Results,
          errno \in Errnos : FromText(source, c_string, result, errno)
    \/ \E c_string \in BOOLEAN, result \in Results :
          BlacklistComponent(c_string, result)
    \/ \E fl \in BuildFlags, result \in Results, errno \in Errnos :
          WithFlags(fl, result, errno)
    \/ Flags
    \/ \E result \in Results : Build(result)
    \/ DropValue

SpecBuilder == InitBuilder /\ [][NextBuilder]_vars

\* C30: the raw topology is destroyed at most once and never reached after
\* that; it is not destroyed while a builder, an error that carries the
\* builder or a topology owns it, and it is destroyed once none does;
\* a successful build() moves it, not destroyed, into the Topology; a failed
\* build() and the end of a builder or of an error that carries it destroy it
C30_DestroyedOnce ==
    /\ \A p \in DOMAIN heap :
          /\ heap[p].freed <= 1
          /\ heap[p].stale = 0
          /\ heap[p].freed = 1 <=> a.ptr # p
    /\ a.type \in {"TopologyBuilder", "Topology", "InvalidParameter",
                   "Unsupported"} <=> a.ptr # NULL
    /\ (out.op = "build" /\ a.type = "Topology") =>
          /\ a.ptr = out.r.ptr
          /\ heap[a.ptr].freed = 0
          /\ heap[a.ptr].val.loaded
    /\ (out.op = "build" /\ a.type # "Topology") =>
          heap[out.r.ptr].freed = 1
    /\ (out.op = "drop" /\ out.r.type # "Topology") =>
          heap[out.r.ptr].freed = 1

\* A topology built from a configured builder is owned by the Topology
C30_Witness ==
    /\ out.op = "build"
    /\ a.type = "Topology"
    /\ heap[a.ptr].val.source # "default"
    /\ heap[a.ptr].val.flags # {}
    /\ heap[a.ptr].freed = 0

====
